---------------------------- MODULE Spec2Model ----------------------------
(***************************************************************************)
(* Voxel Seattle Center: the agent kinematics (Train, Elevator,            *)
(* NewsHelicopter, TrafficCar / HeroTaxi) and the stepped-lobe voxel shell *)
(* extraction, as state machines.                                          *)
(*                                                                         *)
(* Numbers.  JavaScript numbers are modelled as fixed-point integers;      *)
(* every unit is stated where it is used:                                  *)
(*   delta, stopTimer, waitTime      milliseconds                          *)
(*   train progress, curve parameter 1e-6 of the curve                     *)
(*   train speed                     1/100 (0.35 is 35)                    *)
(* A JavaScript number that may be NaN is a record [nan, v].               *)
(* Where the code compares a double with a constant it can land on         *)
(* (progress against a station, waitTime against 0), the model keeps the   *)
(* sign of the double's rounding error beside the fixed-point value        *)
(* (fields round, timerRound, waitRound, pauseRound: -1 below, 0 exact,    *)
(* 1 above), and an update whose arithmetic is not exact in doubles takes  *)
(* any of the three.                                                       *)
(***************************************************************************)
EXTENDS Integers, Sequences, FiniteSets, TLC

VARIABLES train, elev, heli, follower, lobe, track, scene

vars == <<train, elev, heli, follower, lobe, track, scene>>

(***************************************************************************)
(* Bounds of the model.                                                    *)
(***************************************************************************)
\* Frame deltas are multiples of DeltaStep milliseconds, up to MaxDeltaSteps of them.
DeltaStep == 1000
MaxDeltaSteps == 3
\* One long frame (a tab that was in the background) lasts LongSteps steps.
LongSteps == 40
\* Frames with a faulty curve that SpecTrainCurve follows.
MaxFaultyFrames == 2
\* The delta of a steady frame rate (milliseconds): 0.05 s.
FineDelta == 50
\* Updates in MANUAL mode that SpecHelicopter follows.
MaxFlightFrames == 2
\* The longest dwell SpecTrain follows, in steps of DeltaStep (negative
\* deltas lengthen a dwell without limit).
MaxDwellSteps == 45
\* The largest number of grid cells along one axis of a stepped lobe.
MaxSide == 4

(***************************************************************************)
(* JavaScript numbers and helpers.                                         *)
(***************************************************************************)
Num(n) == [nan |-> FALSE, v |-> n]
NaNValue == [nan |-> TRUE, v |-> 0]
isNaN(d) == d.nan

\* a || b on numbers: 0, NaN and undefined are falsy (a missing field is 0 here).
OrDefault(a, b) == IF a = 0 THEN b ELSE a

Max(a, b) == IF a >= b THEN a ELSE b
Min(a, b) == IF a <= b THEN a ELSE b

(***************************************************************************)
(* src/constants.js and the Train constructor's constants (1e-6 units).    *)
(***************************************************************************)
TRAIN_LENGTH_RATIO == 10000
CAR_GAP == 500
TRACK_BUFFER == 10000
STOP_DURATION == 5000
ONE == 1000000

NumCars == 4
CarSlots == 1 .. NumCars

TRAIN_SPAN == 3 * (TRAIN_LENGTH_RATIO + CAR_GAP)

\* offset: i * (TRAIN_LENGTH_RATIO + CAR_GAP), i = 0..3 (slot s is i = s - 1)
offset(s) == (s - 1) * (TRAIN_LENGTH_RATIO + CAR_GAP)

maxProgress == ONE - TRACK_BUFFER

\* Variant: a lower limit that forgets the length of the train.
minProgress_NoSpan == TRACK_BUFFER

minProgress == TRAIN_SPAN + TRACK_BUFFER

(***************************************************************************)
(* Frame deltas (milliseconds).                                            *)
(***************************************************************************)
LongDelta == LongSteps * DeltaStep
PositiveDeltas == {k * DeltaStep : k \in 1 .. MaxDeltaSteps} \cup {LongDelta}
FiniteDeltas == PositiveDeltas \cup {0, 0 - DeltaStep, 0 - LongDelta}

(***************************************************************************)
(* The curve a Train samples.  getPointAt / getTangentAt return, per car   *)
(* slot, a value of one of these kinds:                                    *)
(*   "valid"  a THREE.Vector3 with finite components                       *)
(*   "null"   null or undefined                                            *)
(*   "noX"    an object whose x is not a number                            *)
(*   "plain"  a plain object {x, y, z} of finite numbers, no methods       *)
(*   "nan"    a THREE.Vector3 with a NaN component                         *)
(*   "inf"    a THREE.Vector3 with an infinite component                   *)
(***************************************************************************)
SampleKinds == {"valid", "null", "noX", "plain", "nan", "inf"}
InvalidKinds == SampleKinds \ {"valid"}

\* The CatmullRomCurve3 of src/constants.js: every sample is a finite Vector3.
ValidCurve == [present |-> TRUE,
               pos |-> [s \in CarSlots |-> "valid"],
               tan |-> [s \in CarSlots |-> "valid"]]

\* A curve whose sample for slot s is of kind pk (point) and tk (tangent).
FaultyCurve(s, pk, tk) ==
  [present |-> TRUE,
   pos |-> [c \in CarSlots |-> IF c = s THEN pk ELSE "valid"],
   tan |-> [c \in CarSlots |-> IF c = s THEN tk ELSE "valid"]]

NoCurve == [ValidCurve EXCEPT !.present = FALSE]

\* position && typeof position.x === 'number'  (typeof NaN is 'number')
isNumberX(kind) == kind \notin {"null", "noX"}

\* The checks of train.js:124-125 before a sample is applied.
sampleAccepted(pk, tk) == isNumberX(pk) /\ isNumberX(tk)

\* Vector3.copy(v) reads v.x, v.y, v.z: the copied components.
copiedKind(pk) == IF pk = "plain" THEN "valid" ELSE pk

\* position.clone() is a method call: a plain object has none (TypeError).
cloneThrows(pk) == pk = "plain"

\* lookTarget = position.clone().add(tangent), then lookAt(lookTarget): a
\* non-finite component of either operand makes the orientation NaN.
lookKind(pk, tk) == IF pk \in {"nan", "inf"} \/ tk \in {"nan", "inf"} THEN "nan" ELSE "valid"

\* Math.max(0.0001, Math.min(0.9999, t))
clampT(t) == Max(100, Min(ONE - 100, t))

\* The transform of a car before the first updateCarPositions (a new Group).
NewCar == [position |-> [kind |-> "valid", t |-> 0],
           orientation |-> [kind |-> "valid", t |-> 0]]

\* One car of the forEach of updateCarPositions; aborted is TRUE once an
\* earlier car's callback has thrown.
placeCar(car, t, pk, tk, aborted) ==
  IF aborted \/ ~sampleAccepted(pk, tk) THEN car
  ELSE IF cloneThrows(pk)
       THEN [car EXCEPT !.position = [kind |-> copiedKind(pk), t |-> clampT(t)]]
       ELSE [position |-> [kind |-> copiedKind(pk), t |-> clampT(t)],
             orientation |-> [kind |-> lookKind(pk, tk), t |-> clampT(t)]]

\* The slots whose callback throws.
throwingSlots(curve) ==
  {s \in CarSlots : sampleAccepted(curve.pos[s], curve.tan[s]) /\ cloneThrows(curve.pos[s])}

\* Train.updateCarPositions (progress is never NaN here, so the isNaN(t)
\* guard of line 115 never fires).
updateCarPositions(t, curve) ==
  IF ~curve.present THEN [t EXCEPT !.threw = FALSE, !.sampled = curve]
  ELSE [t EXCEPT
         !.cars = [s \in CarSlots |->
                     placeCar(t.cars[s], t.progress - offset(s), curve.pos[s], curve.tan[s],
                              \E e \in throwingSlots(curve) : e < s)],
         !.threw = throwingSlots(curve) # {},
         !.sampled = curve]

\* Train constructor (train.js:6-65).
\* Variant: a constructor clamp without the lower bound.
clampProgress_UpperOnly(p) == Min(ONE - TRACK_BUFFER, p)

clampProgress(p) == Max(TRAIN_SPAN + TRACK_BUFFER, Min(ONE - TRACK_BUFFER, p))

\* frames, sinceStop and lastStop are history kept by the frame actions: the
\* updates taken, the deltas summed over the current (or last) station stop,
\* and the bound of the last stop; rate is the frame rate of the driver
\* and absorbed tells that the last frame's delta was too small to change
\* a double (see RedTrainAbsorbedFrame).  round and
\* timerRound are the signs of the rounding errors of the doubles
\* this.progress and this.stopTimer (0 after an assignment of a constant).
NewTrain(config, curve) ==
  updateCarPositions(
    [config |-> config,
     progress |-> clampProgress(OrDefault(config.initialProgress, 0)),
     round |-> 0,
     timerRound |-> 0,
     absorbed |-> FALSE,
     rate |-> "coarse",
     speed |-> OrDefault(config.speed, 10),
     direction |-> OrDefault(config.direction, 1),
     state |-> "MOVING",
     stopTimer |-> 0,
     cars |-> [s \in CarSlots |-> NewCar],
     threw |-> FALSE,
     sampled |-> curve,
     frames |-> 0,
     sinceStop |-> 0,
     lastStop |-> "none"],
    curve)

\* Variant: a dwell that ends one second early.
dwell_EndsEarly(t, delta, rnd) ==
  LET timer == t.stopTimer - delta
  IN [t EXCEPT !.stopTimer = timer, !.timerRound = rnd,
               !.state = IF timer <= 1000 THEN "MOVING" ELSE "STOPPED"]

\* this.stopTimer <= 0 (train.js:73) on the double whose fixed-point value
\* is timer and whose rounding error has the sign rnd.
timerExpired(timer, rnd) == timer < 0 \/ (timer = 0 /\ rnd <= 0)

\* The station-stop branch of Train.update (train.js:71-78); rnd is the sign
\* of the rounding error of the decreased stopTimer.
dwell(t, delta, rnd) ==
  LET timer == t.stopTimer - delta
  IN [t EXCEPT !.stopTimer = timer, !.timerRound = rnd,
               !.state = IF timerExpired(timer, rnd) THEN "MOVING" ELSE "STOPPED"]

\* this.progress >= maxProgress (train.js:89) on the double whose fixed-point
\* value is p and whose rounding error has the sign rnd.
reachesUpper(p, rnd) == p > maxProgress \/ (p = maxProgress /\ rnd >= 0)

\* this.progress <= minProgress (train.js:97), likewise.
reachesLower(p, rnd) == p < minProgress \/ (p = minProgress /\ rnd <= 0)

\* Variant: the upper station stops the train but does not reverse it.
applyLimits_NoFlip(t, p, rnd) ==
  IF reachesUpper(p, rnd)
  THEN [t EXCEPT !.progress = maxProgress, !.round = 0,
                 !.state = "STOPPED", !.stopTimer = STOP_DURATION,
                 !.timerRound = 0]
  ELSE IF reachesLower(p, rnd)
       THEN [t EXCEPT !.progress = minProgress, !.round = 0, !.direction = 1,
                      !.state = "STOPPED", !.stopTimer = STOP_DURATION,
                 !.timerRound = 0]
       ELSE [t EXCEPT !.progress = p, !.round = rnd]

\* Variant: the stations stop the train without arming the dwell timer.
applyLimits_NoTimer(t, p, rnd) ==
  IF reachesUpper(p, rnd)
  THEN [t EXCEPT !.progress = maxProgress, !.round = 0, !.direction = -1,
                 !.state = "STOPPED"]
  ELSE IF reachesLower(p, rnd)
       THEN [t EXCEPT !.progress = minProgress, !.round = 0, !.direction = 1,
                      !.state = "STOPPED"]
       ELSE [t EXCEPT !.progress = p, !.round = rnd]

\* The limit checks of Train.update (train.js:85-103) on the advanced
\* progress: p its fixed-point value, rnd the sign of its rounding error.
applyLimits(t, p, rnd) ==
  IF reachesUpper(p, rnd)
  THEN [t EXCEPT !.progress = maxProgress, !.round = 0, !.direction = -1,
                 !.state = "STOPPED", !.stopTimer = STOP_DURATION,
                 !.timerRound = 0]
  ELSE IF reachesLower(p, rnd)
       THEN [t EXCEPT !.progress = minProgress, !.round = 0, !.direction = 1,
                      !.state = "STOPPED", !.stopTimer = STOP_DURATION,
                 !.timerRound = 0]
       ELSE [t EXCEPT !.progress = p, !.round = rnd]

\* Variant: an advance that ignores the direction.
advance_IgnoresDirection(t, delta) == t.progress + t.speed * delta

\* progress += direction * speed * delta * speedScale, speedScale = 0.1:
\* (speed/100) * (delta/1000) * (1/10) is speed * delta in 1e-6 units.
advance(t, delta) == t.progress + t.direction * t.speed * delta

\* The signs of a rounding error: below, exact, above.
Roundings == {0 - 1, 0, 1}

\* The signs the rounding error of the double an update writes can have.
\* STOPPED: stopTimer -= delta (train.js:72) is exact for a delta of whole
\* seconds taken from an exact stopTimer; otherwise a difference that lands
\* on 0 may be 0 or lie on either side of it, and away from 0, where the
\* sign is not compared with anything, timerRound = 1 only records that
\* the double is off its fixed-point value.  MOVING: progress += ... * 0.1
\* (train.js:83) is a rounded product added to a double, so a sum that
\* lands on a station may be the station's double or one of its neighbours
\* (0.05 + 0.94 is 0.9899999999999998, below 0.99); adding 0 keeps the
\* double as it is; elsewhere the sign is not compared with anything and is
\* kept at 0.
roundings(t, delta) ==
  IF t.state = "STOPPED"
  THEN IF delta = 0 THEN {t.timerRound}
       ELSE IF delta % 1000 = 0 /\ t.timerRound = 0 THEN {0}
       ELSE IF t.stopTimer - delta = 0 THEN Roundings
            ELSE {1}
  ELSE IF delta = 0 THEN {t.round}
       ELSE IF advance(t, delta) \in {minProgress, maxProgress} THEN Roundings
            ELSE {0}

\* Train.update(delta) (train.js:67-106); delta is a JavaScript number, rnd
\* the sign of the rounding error of the double the update writes (the
\* decreased stopTimer, or the advanced progress).
update(t, delta, curve, rnd) ==
  IF isNaN(delta) THEN [t EXCEPT !.threw = FALSE]
  ELSE IF t.state = "STOPPED" THEN [dwell(t, delta.v, rnd) EXCEPT !.threw = FALSE]
  ELSE updateCarPositions(applyLimits(t, advance(t, delta.v), rnd), curve)

\* Variant: the camera always follows car 0.
leadCarIndex_Front(t) == 0

\* Train.getCameraTarget: the index of the lead car (0-based as in the code).
leadCarIndex(t) == IF t.direction = 1 THEN 0 ELSE 3

(***************************************************************************)
(* The configurations a Train is built with.  A field of 0 stands for a    *)
(* missing (falsy) field.  index.js builds the red and the blue train.     *)
(***************************************************************************)
RedConfig == [initialProgress |-> 50000, speed |-> 35, direction |-> 1]
BlueConfig == [initialProgress |-> 950000, speed |-> 32, direction |-> -1]

InitialProgressValues == {0, 0 - 500000, 50000, 950000, 1500000}

TrainConfigs ==
  {[initialProgress |-> p, speed |-> sd[1], direction |-> sd[2]] :
     p \in InitialProgressValues, sd \in {<<35, 1>>, <<32, -1>>, <<0, 0>>}}

(***************************************************************************)
(* The other components, idle (their own specifications start them).       *)
(***************************************************************************)
IdleElev == [mode |-> "idle"]
IdleHeli == [mode |-> "idle"]
IdleFollower == [mode |-> "idle"]
IdleLobe == [pc |-> "idle"]
IdleTrain == [state |-> "idle"]
IdleTrack == [pc |-> "idle"]
IdleScene == [pc |-> "idle"]

(***************************************************************************)
(* SpecTrain: a Train on a valid curve, any configuration, any delta.      *)
(***************************************************************************)
InitTrain ==
  /\ \E c \in TrainConfigs : train = NewTrain(c, ValidCurve)
  /\ elev = IdleElev /\ heli = IdleHeli /\ follower = IdleFollower /\ lobe = IdleLobe
  /\ track = IdleTrack /\ scene = IdleScene

\* A frame: update(delta) with a finite delta.  A negative delta lengthens
\* the dwell: the model follows stopTimer up to MaxDwellSteps steps.
TrainFrame ==
  /\ \E d \in FiniteDeltas :
       /\ train.state = "STOPPED" => train.stopTimer - d <= MaxDwellSteps * DeltaStep
       /\ \E rnd \in roundings(train, d) :
            train' = [update(train, Num(d), ValidCurve, rnd) EXCEPT
                        !.sinceStop = IF train.state = "STOPPED" THEN @ + d ELSE 0]
  /\ UNCHANGED <<elev, heli, follower, lobe, track, scene>>

\* A frame whose delta is NaN.
TrainFrameNaN ==
  /\ train' = update(train, NaNValue, ValidCurve, train.round)
  /\ UNCHANGED <<elev, heli, follower, lobe, track, scene>>

NextTrain == TrainFrame \/ TrainFrameNaN

SpecTrain == InitTrain /\ [][NextTrain]_vars

(***************************************************************************)
(* SpecRedTrain: the red train of index.js driven by positive deltas.      *)
(***************************************************************************)
\* The deltas of the driver's frames: a steady frame rate (rate "fine"),
\* or whole seconds and long frames in any order (rate "coarse").
FrameRates == {"coarse", "fine"}
DriverDeltas(t) == IF t.rate = "fine" THEN {FineDelta} ELSE PositiveDeltas

\* redTrain.update(delta) in animate (index.js:179) with the history the
\* driver's specifications keep: the deltas summed over a stop, the bound
\* of the last stop, and whether the delta was absorbed.
driverUpdate(t, delta, rnd, absorbed) ==
  LET next == update(t, Num(delta), ValidCurve, rnd)
  IN [next EXCEPT
        !.absorbed = absorbed,
        !.sinceStop = IF t.state = "STOPPED" THEN @ + delta ELSE 0,
        !.lastStop = IF t.state = "MOVING" /\ next.state = "STOPPED"
                     THEN (IF next.progress = maxProgress THEN "upper" ELSE "lower")
                     ELSE @]

InitRedTrain ==
  /\ \E rate \in FrameRates : train = [NewTrain(RedConfig, ValidCurve) EXCEPT !.rate = rate]
  /\ elev = IdleElev /\ heli = IdleHeli /\ follower = IdleFollower /\ lobe = IdleLobe
  /\ track = IdleTrack /\ scene = IdleScene

RedTrainFrame ==
  /\ \E d \in DriverDeltas(train) :
       \E rnd \in roundings(train, d) : train' = driverUpdate(train, d, rnd, FALSE)
  /\ UNCHANGED <<elev, heli, follower, lobe, track, scene>>

\* A frame whose delta is positive but so small that the doubles absorb it:
\* stopTimer - delta is stopTimer (train.js:72) and progress + direction *
\* speed * delta * 0.1 is progress (train.js:83), as under delta = 0.  For
\* the red train at 0.99 that is every delta below about 1.6e-15 s.
RedTrainAbsorbedFrame ==
  /\ \E rnd \in roundings(train, 0) : train' = driverUpdate(train, 0, rnd, TRUE)
  /\ UNCHANGED <<elev, heli, follower, lobe, track, scene>>

NextRedTrain == RedTrainFrame \/ RedTrainAbsorbedFrame

SpecRedTrain == InitRedTrain /\ [][NextRedTrain]_vars

(***************************************************************************)
(* SpecTrainCurve: the red train on a curve whose samples may be invalid.  *)
(* The curve is an input of every call; frames counts the updates.         *)
(***************************************************************************)
FaultPairs ==
  {<<k, "valid">> : k \in InvalidKinds} \cup {<<"valid", k>> : k \in InvalidKinds}

Curves ==
  {ValidCurve} \cup {FaultyCurve(s, f[1], f[2]) : s \in CarSlots, f \in FaultPairs}

InitTrainCurve ==
  /\ \E c \in Curves \cup {NoCurve} : train = NewTrain(RedConfig, c)
  /\ elev = IdleElev /\ heli = IdleHeli /\ follower = IdleFollower /\ lobe = IdleLobe
  /\ track = IdleTrack /\ scene = IdleScene

FaultyFrame ==
  /\ train.frames < MaxFaultyFrames
  /\ \E c \in Curves :
       \E rnd \in roundings(train, DeltaStep) :
         train' = [update(train, Num(DeltaStep),
                          [c EXCEPT !.present = train.sampled.present], rnd)
                     EXCEPT !.frames = @ + 1]
  /\ UNCHANGED <<elev, heli, follower, lobe, track, scene>>

NextTrainCurve == FaultyFrame

SpecTrainCurve == InitTrainCurve /\ [][NextTrainCurve]_vars

(***************************************************************************)
(* Claims about the Train.                                                 *)
(***************************************************************************)

\* C1: after construction and after every update with a finite delta, every
\* car slot's parameter progress - offset lies in [TRACK_BUFFER, 1 - TRACK_BUFFER],
\* so the safety clamp leaves it as it is: the parameter handed to the curve
\* is progress - offset itself, inside the curve's domain.
C1_SlotParameterInDomain ==
  \A s \in CarSlots :
    /\ TRACK_BUFFER <= train.progress - offset(s)
    /\ train.progress - offset(s) <= ONE - TRACK_BUFFER
    /\ train.cars[s].position.t = train.progress - offset(s)
    /\ train.cars[s].position.t > 0 /\ train.cars[s].position.t < ONE

\* C1 witness: the train has been driven into the lower station; the
\* trailing car samples exactly at the buffer.
C1_Witness ==
  /\ train.state = "STOPPED"
  /\ train.progress = TRAIN_SPAN + TRACK_BUFFER
  /\ train.cars[NumCars].position.t = TRACK_BUFFER

\* C2: progress is in [TRAIN_SPAN + TRACK_BUFFER, 1 - TRACK_BUFFER] in every
\* reachable state, for every configuration and every delta.
C2_ProgressBounded ==
  /\ TRAIN_SPAN + TRACK_BUFFER <= train.progress
  /\ train.progress <= ONE - TRACK_BUFFER
  /\ train.progress = TRAIN_SPAN + TRACK_BUFFER => train.round >= 0
  /\ train.progress = ONE - TRACK_BUFFER => train.round <= 0

\* C2 witness: a train built with an initialProgress above 1 that a long
\* negative delta has driven to the lower bound.
C2_Witness ==
  /\ train.config.initialProgress > ONE
  /\ train.config.direction = 1
  /\ train.progress = TRAIN_SPAN + TRACK_BUFFER
  /\ train.state = "STOPPED"

\* The double progress is the upper bound itself.
OnUpperBound == train.progress = maxProgress /\ train.round = 0

\* C3 (as claimed): the red train, driven by positive deltas: the update in
\* which progress reaches the upper bound leaves it STOPPED with direction
\* -1 and stopTimer = STOP_DURATION > 0; direction is -1 for the whole
\* dwell; and the first MOVING update after the dwell strictly decreases
\* progress.
C3_RedTrainScenario ==
  [][ /\ (~OnUpperBound /\ OnUpperBound')
          => /\ train'.state = "STOPPED"
             /\ train'.direction = -1
             /\ train'.stopTimer = STOP_DURATION
             /\ STOP_DURATION > 0
      /\ (OnUpperBound /\ train.state = "STOPPED")
          => /\ train.direction = -1
             /\ train'.direction = -1
             /\ train'.progress = train.progress
             /\ (train'.state = "MOVING" => timerExpired(train'.stopTimer, train'.timerRound))
      /\ (OnUpperBound /\ train.state = "MOVING")
          => /\ train.direction = -1
             /\ train'.progress < train.progress
    ]_vars

\* C3 (amended): as claimed, but the first MOVING update after the dwell
\* strictly decreases progress only when its delta is large enough to change
\* the double; an absorbed delta leaves progress on the upper bound, where
\* the >= test stops the train again and arms the timer anew.
C3_RedTrainScenarioAmended ==
  [][ /\ (~OnUpperBound /\ OnUpperBound')
          => /\ train'.state = "STOPPED"
             /\ train'.direction = -1
             /\ train'.stopTimer = STOP_DURATION
             /\ STOP_DURATION > 0
      /\ (OnUpperBound /\ train.state = "STOPPED")
          => /\ train.direction = -1
             /\ train'.direction = -1
             /\ train'.progress = train.progress
             /\ (train'.state = "MOVING" => timerExpired(train'.stopTimer, train'.timerRound))
      /\ (OnUpperBound /\ train.state = "MOVING")
          => /\ train.direction = -1
             /\ IF train'.absorbed
                THEN /\ OnUpperBound'
                     /\ train'.state = "STOPPED"
                     /\ train'.direction = -1
                     /\ train'.stopTimer = STOP_DURATION
                ELSE train'.progress < train.progress
    ]_vars

\* C3 witness: the red train has dwelt at the upper station and left it.
C3_Witness ==
  /\ train.config = RedConfig
  /\ train.state = "MOVING"
  /\ train.direction = -1
  /\ train.stopTimer <= 0
  /\ train.progress < maxProgress
  /\ train.progress > minProgress

\* C10 (as claimed): in an update that calls updateCarPositions, a car whose
\* point or tangent sample is missing, malformed or non-finite keeps its
\* transform, no exception is raised, the other cars are placed, and no
\* non-finite value is ever on a car transform.
C10_InvalidSampleRejected ==
  [][ (train.state = "MOVING" /\ train'.frames = train.frames + 1 /\ train'.sampled.present)
        => /\ ~train'.threw
           /\ \A s \in CarSlots :
                IF train'.sampled.pos[s] \in InvalidKinds \/ train'.sampled.tan[s] \in InvalidKinds
                THEN train'.cars[s] = train.cars[s]
                ELSE train'.cars[s].position.t = train'.progress - offset(s)
           /\ \A s \in CarSlots :
                /\ train'.cars[s].position.kind = "valid"
                /\ train'.cars[s].orientation.kind = "valid"
    ]_vars

(***************************************************************************)
(* Elevator (part_000:1912-2062).  y, targetY in 1e-5 units; velocity in   *)
(* 1e-6 units per second; waitTime and delta in milliseconds.  At a delta  *)
(* of whole milliseconds the velocity outside the damping zone is a        *)
(* multiple of 0.01 and its product with delta a multiple of 1e-5: both    *)
(* are exact.  In the damping zone the product with 0.95 is rounded to the *)
(* nearest 1e-6 and the step of y to the nearest 1e-5.                     *)
(***************************************************************************)
MAX_SPEED == 15000000
ACCEL == 10000000
STOP_Y_TOP == 41500000
STOP_Y_BOT == 1000000

Abs(n) == IF n >= 0 THEN n ELSE 0 - n
Sign(n) == IF n > 0 THEN 1 ELSE IF n < 0 THEN -1 ELSE 0

\* n * m / d truncated toward zero, without an intermediate above 32 bits.
MulDiv(n, m, d) ==
  Sign(n) * ((Abs(n) \div d) * m + ((Abs(n) % d) * m) \div d)

\* n * m / d rounded to the nearest integer (a double product is rounded
\* to the nearest double), without an intermediate above 32 bits.
MulRound(n, m, d) ==
  Sign(n) * ((Abs(n) \div d) * m + ((Abs(n) % d) * m + d \div 2) \div d)

\* Math.random() * 5 in milliseconds: a value of [0, 5000).
RandomWaits == {0, 2500, 4999}

\* The speedOffset of the three elevators of SpaceNeedle (part_000:2123-2125).
SpeedOffsets == {0, 2000, 4000}

\* Elevator constructor: this.state.  waitRound is the sign of the rounding
\* error of the double waitTime (0 after an assignment).
NewElevatorState(speedOffset, r) ==
  [y |-> 1000000, targetY |-> 41500000, velocity |-> 0, mode |-> "wait",
   waitTime |-> r + speedOffset, waitRound |-> 0]

\* s.waitTime <= 0 (part_000:2025) on the double whose fixed-point value is
\* w and whose rounding error has the sign rnd.
expired(w, rnd) == w < 0 \/ (w = 0 /\ rnd <= 0)

\* The signs the rounding error of waitTime can have after the -= of
\* part_000:2024.  Subtracting a whole number of seconds is exact in
\* doubles and keeps the error as it is; any other delta (0.05 has no
\* finite binary expansion) may leave the difference on either side.
waitRoundings(s, delta) == IF delta % 1000 = 0 THEN {s.waitRound} ELSE Roundings

\* Variant: a wait that always ends by sending the cabin up.
waitStep_AlwaysUp(s, delta, rnd) ==
  LET w == s.waitTime - delta
  IN IF expired(w, rnd)
     THEN [s EXCEPT !.waitTime = w, !.waitRound = rnd, !.mode = "up",
                    !.targetY = STOP_Y_TOP]
     ELSE [s EXCEPT !.waitTime = w, !.waitRound = rnd]

\* Variant: a wait that ends without choosing a new target.
waitStep_KeepsTarget(s, delta, rnd) ==
  LET w == s.waitTime - delta
  IN IF expired(w, rnd)
     THEN [s EXCEPT !.waitTime = w, !.waitRound = rnd,
                    !.mode = IF s.y < 10000000 THEN "up" ELSE "down"]
     ELSE [s EXCEPT !.waitTime = w, !.waitRound = rnd]

\* The 'wait' branch of Elevator.update (part_000:2023-2028); rnd is the
\* sign of the rounding error of the new waitTime.
waitStep(s, delta, rnd) ==
  LET w == s.waitTime - delta
  IN IF expired(w, rnd)
     THEN IF s.y < 10000000
          THEN [s EXCEPT !.waitTime = w, !.waitRound = rnd, !.mode = "up",
                         !.targetY = STOP_Y_TOP]
          ELSE [s EXCEPT !.waitTime = w, !.waitRound = rnd, !.mode = "down",
                         !.targetY = STOP_Y_BOT]
     ELSE [s EXCEPT !.waitTime = w, !.waitRound = rnd]

\* Variant: acceleration without the MAX_SPEED test.
nextVelocity_NoLimit(s, delta) ==
  LET dist == s.targetY - s.y
      v1 == s.velocity + Sign(dist) * MulDiv(ACCEL, delta, 1000)
  IN IF Abs(dist) < 5000000 THEN MulRound(v1, 19, 20) ELSE v1

\* The velocity after acceleration and damping (part_000:2030-2033).
nextVelocity(s, delta) ==
  LET dist == s.targetY - s.y
      dir == Sign(dist)
      v1 == IF Abs(s.velocity) < MAX_SPEED
            THEN s.velocity + dir * MulDiv(ACCEL, delta, 1000)
            ELSE s.velocity
  IN IF Abs(dist) < 5000000 THEN MulRound(v1, 19, 20) ELSE v1

\* The arrival test (part_000:2035).
arrives(s, v) ==
  LET dist == s.targetY - s.y
      dir == Sign(dist)
  IN Abs(dist) < 100000 \/ (dir > 0 /\ v < 0) \/ (dir < 0 /\ v > 0)

\* Variant: an arrival that stops the cabin where it is.
moveStep_NoSnap(s, delta, r) ==
  LET v == nextVelocity(s, delta)
  IN IF arrives(s, v)
     THEN [s EXCEPT !.velocity = 0, !.mode = "wait", !.waitTime = 3000 + r,
                    !.waitRound = 0]
     ELSE [s EXCEPT !.velocity = v, !.y = s.y + MulRound(v, delta, 10000)]

\* The moving branch of Elevator.update (part_000:2029-2043); r is the
\* Math.random() * 5 of the new dwell.
moveStep(s, delta, r) ==
  LET v == nextVelocity(s, delta)
  IN IF arrives(s, v)
     THEN [s EXCEPT !.y = s.targetY, !.velocity = 0, !.mode = "wait",
                    !.waitTime = 3000 + r, !.waitRound = 0]
     ELSE [s EXCEPT !.velocity = v, !.y = s.y + MulRound(v, delta, 10000)]

\* Elevator.update(delta); r is what Math.random() * 5 gives, rnd the sign
\* of the rounding error of the new waitTime.
elevatorUpdate(s, delta, r, rnd) ==
  IF s.mode = "wait" THEN waitStep(s, delta, rnd) ELSE moveStep(s, delta, r)

(***************************************************************************)
(* SpecElevator: one elevator.  A behaviour either draws every delta from  *)
(* PositiveDeltas (rate "coarse") or runs at the steady rate FineDelta     *)
(* (rate "fine").                                                          *)
(***************************************************************************)
InitElevator ==
  /\ \E o \in SpeedOffsets, r \in RandomWaits, rate \in {"coarse", "fine"} :
       elev = [mode |-> "run", rate |-> rate, state |-> NewElevatorState(o, r)]
  /\ train = IdleTrain /\ heli = IdleHeli /\ follower = IdleFollower /\ lobe = IdleLobe
  /\ track = IdleTrack /\ scene = IdleScene

ElevatorFrame ==
  /\ elev.rate = "coarse"
  /\ \E d \in PositiveDeltas, r \in RandomWaits :
       \E rnd \in waitRoundings(elev.state, d) :
         elev' = [elev EXCEPT !.state = elevatorUpdate(elev.state, d, r, rnd)]
  /\ UNCHANGED <<train, heli, follower, lobe, track, scene>>

ElevatorFineFrame ==
  /\ elev.rate = "fine"
  /\ \E r \in RandomWaits, rnd \in waitRoundings(elev.state, FineDelta) :
       elev' = [elev EXCEPT !.state = elevatorUpdate(elev.state, FineDelta, r, rnd)]
  /\ UNCHANGED <<train, heli, follower, lobe, track, scene>>

NextElevator == ElevatorFrame \/ ElevatorFineFrame

\* requestAnimationFrame keeps the loop running: frames keep coming.
SpecElevator == InitElevator /\ [][NextElevator]_vars /\ WF_vars(NextElevator)

AtBottom ==
  elev.state.mode = "wait" /\ elev.state.y = STOP_Y_BOT /\ elev.state.velocity = 0

AtTop ==
  elev.state.mode = "wait" /\ elev.state.y = STOP_Y_TOP /\ elev.state.velocity = 0

\* C4: the elevator starts at y = 10 in 'wait'; under positive deltas it
\* eventually stands at y = 415 exactly with velocity 0 in 'wait', and from
\* there it eventually stands at y = 10 exactly with velocity 0 in 'wait'.
C4_ElevatorRoundTrip ==
  /\ AtBottom
  /\ AtBottom ~> AtTop
  /\ AtTop ~> AtBottom


(***************************************************************************)
(* NewsHelicopter (part_000:154-393).  Lengths in 1e-3 units, velocities   *)
(* in 1e-3 units per second, the body's tilt in 1e-3 rad, the heading      *)
(* (group.rotation.y) in 1e-6 rad, angular velocity in 1e-6 rad per        *)
(* second, rotorSpeed in 1e-3, delta in milliseconds.  Sines and cosines   *)
(* are in 1e-6; a product with one of them or with the drag factor is      *)
(* rounded to the nearest unit, the other products are truncated toward    *)
(* zero.                                                                   *)
(*                                                                         *)
(* The rotor mesh angles, the sound volume call and the gimbal aim are     *)
(* outputs computed from this state; they feed nothing back.               *)
(***************************************************************************)
Vec(x, y, z) == [x |-> x, y |-> y, z |-> z]
ZeroVec == Vec(0, 0, 0)

\* createNewsTower returns the pad position (tx, roofY + 1.6, tz).
landingPadPos == Vec(0 - 55000, 47100, 0 - 215000)

\* this.PHYSICS
PHYSICS == [ACCEL |-> 60000, LIFT |-> 40000, GRAVITY |-> 20000, MAX_TILT |-> 400]

\* vector * FRICTION (0.97), rounded to the nearest 1e-3;
\* angularVelocity * ANGULAR_FRICTION (0.92)
friction(n) == Sign(n) * ((Abs(n) * 97 + 50) \div 100)
angularFriction(n) == MulDiv(n, 23, 25)

\* this.velocity.addScaledVector / position.addScaledVector(v, s), s = k / 1000
addScaled(p, v, k) ==
  Vec(p.x + MulDiv(v.x, k, 1000), p.y + MulDiv(v.y, k, 1000), p.z + MulDiv(v.z, k, 1000))

\* THREE.MathUtils.clamp and lerp (t = delta * 3, delta in ms)
clamp(n, lo, hi) == Max(lo, Min(hi, n))
lerp(a, b, delta) == ((1000 - 3 * delta) * a + 3 * delta * b) \div 1000

\* NewsHelicopter constructor.
NewHelicopter ==
  [mode |-> "run", op |-> "new", flown |-> 0,
   landingPos |-> landingPadPos,
   position |-> landingPadPos,
   rotation |-> ZeroVec,
   bodyRotation |-> ZeroVec,
   isManual |-> FALSE,
   velocity |-> ZeroVec,
   angularVelocity |-> 0,
   rotorSpeed |-> 0,
   targetRotorSpeed |-> 0]

\* A gamepad after the dead zone of 0.15: sticks at rest or fully deflected.
NoGamepad == [connected |-> FALSE, leftStickX |-> 0, leftStickY |-> 0,
              rightStickX |-> 0, rightTrigger |-> 0]

\* The left stick is at rest, pushed right (x = 1) or pushed forward (y = -1).
Gamepads ==
  {NoGamepad} \cup
  {[connected |-> TRUE, leftStickX |-> ls[1], leftStickY |-> ls[2],
    rightStickX |-> rs, rightTrigger |-> rt] :
     ls \in {<<0, 0>>, <<1, 0>>, <<0, 0 - 1>>}, rs \in {0, 1}, rt \in {0, 1}}

\* a * b / 1e6 rounded to the nearest integer, without an intermediate
\* above 32 bits.
MulMicro(a, b) ==
  LET x == Abs(a)
      y == Abs(b)
      mid == (x \div 1000) * (y % 1000) + (x % 1000) * (y \div 1000)
  IN Sign(a) * Sign(b)
       * ((x \div 1000) * (y \div 1000) + mid \div 1000
            + ((mid % 1000) * 1000 + (x % 1000) * (y % 1000) + 500000) \div 1000000)

\* pi and its multiples in 1e-6 rad.
Pi == 3141593
TwoPi == 2 * Pi
HalfPi == Pi \div 2
QuarterPi == Pi \div 4

\* Math.sin and Math.cos on [0, pi/4] by their Taylor series (to x^9, x^8).
sinSeries(x) ==
  LET x2 == MulMicro(x, x)
      t4 == ONE - x2 \div 72
      t3 == ONE - MulMicro(x2, t4) \div 42
      t2 == ONE - MulMicro(x2, t3) \div 20
      t1 == ONE - MulMicro(x2, t2) \div 6
  IN MulMicro(x, t1)

cosSeries(x) ==
  LET x2 == MulMicro(x, x)
      t4 == ONE - x2 \div 56
      t3 == ONE - MulMicro(x2, t4) \div 30
      t2 == ONE - MulMicro(x2, t3) \div 12
  IN ONE - MulMicro(x2, t2) \div 2

\* sin on [0, pi/2].
sinFirst(x) == IF x <= QuarterPi THEN sinSeries(x) ELSE cosSeries(HalfPi - x)

\* Math.sin(a) and Math.cos(a), a in 1e-6 rad.
sin(a) ==
  LET r == a % TwoPi
      q == IF r <= HalfPi THEN r
           ELSE IF r <= Pi THEN Pi - r
           ELSE IF r <= Pi + HalfPi THEN r - Pi
           ELSE TwoPi - r
  IN (IF r <= Pi THEN 1 ELSE 0 - 1) * sinFirst(q)

cos(a) == sin(a + HalfPi)

\* new Vector3(0, 0, 1) and new Vector3(1, 0, 0) after
\* applyQuaternion(this.group.quaternion) (part_000:286-287): the group is
\* turned about the y axis only, by the heading ry.  Components in 1e-6.
forward(ry) == Vec(sin(ry), 0, cos(ry))
right(ry) == Vec(cos(ry), 0, 0 - sin(ry))

\* v.clone().applyQuaternion(quaternion.clone().invert()) (part_000:315):
\* the world vector v seen from the helicopter.
localVel(v, ry) ==
  LET turned(s, c) ==
        Vec(MulMicro(v.x, c) - MulMicro(v.z, s), v.y, MulMicro(v.x, s) + MulMicro(v.z, c))
  IN turned(sin(ry), cos(ry))

\* The rotor ramp at the head of update (part_000:338-342).
rotorRamp(h, delta) ==
  IF h.rotorSpeed < h.targetRotorSpeed THEN h.rotorSpeed + 10 * delta
  ELSE IF h.rotorSpeed > h.targetRotorSpeed THEN h.rotorSpeed - 5 * delta
  ELSE h.rotorSpeed

\* this.sound.setVolume(Math.min(1.0, this.rotorSpeed / 5)), in 1e-3.
engineVolume(h) == Min(1000, h.rotorSpeed \div 5)

\* The if (gp) block of updateHelicopterControls (part_000:264-305):
\* ANGULAR_ACCEL is 2.0; the thrust acts along the heading reached by the
\* yaw of the same update.
applyInput(h, gp, delta) ==
  LET av == angularFriction(h.angularVelocity - gp.rightStickX * 2000 * delta)
      kf == 0 - gp.leftStickY * MulDiv(PHYSICS.ACCEL, delta, 1000)
      kr == gp.leftStickX * MulDiv(PHYSICS.ACCEL, delta, 1000)
      vy == h.velocity.y - MulDiv(PHYSICS.GRAVITY, delta, 1000)
                         + gp.rightTrigger * MulDiv(PHYSICS.LIFT, delta, 1000)
      onFloor == h.position.y < 2000
      thrust(ry, f, r) ==
        [h EXCEPT !.angularVelocity = av,
                  !.rotation.y = ry,
                  !.velocity = Vec(h.velocity.x + MulMicro(f.x, kf) + MulMicro(r.x, kr),
                                   IF onFloor /\ vy < 0 THEN 0 ELSE vy,
                                   h.velocity.z + MulMicro(f.z, kf) + MulMicro(r.z, kr)),
                  !.position.y = IF onFloor THEN 2000 ELSE @]
      yawed(ry) == thrust(ry, forward(ry), right(ry))
  IN yawed(h.rotation.y + MulDiv(av, delta, 1000))

\* The rest of updateHelicopterControls (part_000:307-328): the tilt follows
\* the velocity seen from the helicopter.
integrate(h, delta) ==
  LET pos == addScaled(h.position, h.velocity, delta)
      vel == Vec(friction(h.velocity.x), friction(h.velocity.y), friction(h.velocity.z))
      clampedPitch(local) ==
        clamp(MulDiv(local.z, 2, 100), 0 - PHYSICS.MAX_TILT, PHYSICS.MAX_TILT)
      clampedRoll(local) ==
        clamp(0 - MulDiv(local.x, 2, 100), 0 - PHYSICS.MAX_TILT, PHYSICS.MAX_TILT)
      tilted(local) ==
        [h EXCEPT !.position = pos,
                  !.velocity = vel,
                  !.bodyRotation.x = lerp(@, clampedPitch(local), delta),
                  !.bodyRotation.z = lerp(@, clampedRoll(local), delta)]
  IN tilted(localVel(vel, h.rotation.y))

\* Variant: the input block runs whether or not a gamepad is connected.
updateHelicopterControls_AlwaysInput(h, gp, delta) ==
  integrate(applyInput(h, gp, delta), delta)

updateHelicopterControls(h, gp, delta) ==
  integrate(IF gp.connected THEN applyInput(h, gp, delta) ELSE h, delta)

\* Variant: a parked update that only spins the rotor down.
parked_NoSnap(h) == [h EXCEPT !.targetRotorSpeed = 0]

\* The parked branch of update (part_000:354-363).
parked(h) ==
  [h EXCEPT !.targetRotorSpeed = 0,
            !.position = h.landingPos,
            !.rotation = ZeroVec,
            !.bodyRotation = ZeroVec,
            !.velocity = ZeroVec,
            !.angularVelocity = 0]

\* NewsHelicopter.update(delta); gp is what navigator.getGamepads() shows.
helicopterUpdate(h, gp, delta) ==
  LET r == [h EXCEPT !.rotorSpeed = rotorRamp(h, delta), !.op = "update"]
  IN IF r.isManual
     THEN updateHelicopterControls([r EXCEPT !.targetRotorSpeed = 20000], gp, delta)
     ELSE parked(r)

(***************************************************************************)
(* SpecHelicopter: the helicopter under updates and under writes of its    *)
(* isManual flag (nothing in the repository writes it after construction). *)
(***************************************************************************)
HeliDeltas == {FineDelta, DeltaStep}

InitHelicopter ==
  /\ heli = NewHelicopter
  /\ train = IdleTrain /\ elev = IdleElev /\ follower = IdleFollower /\ lobe = IdleLobe
  /\ track = IdleTrack /\ scene = IdleScene

HeliParkedFrame ==
  /\ ~heli.isManual
  /\ \E d \in {DeltaStep, LongDelta} : heli' = helicopterUpdate(heli, NoGamepad, d)
  /\ UNCHANGED <<train, elev, follower, lobe, track, scene>>

HeliManualFrame ==
  /\ heli.isManual
  /\ heli.flown < MaxFlightFrames
  /\ \E d \in HeliDeltas, gp \in Gamepads :
       heli' = [helicopterUpdate(heli, gp, d) EXCEPT !.flown = @ + 1]
  /\ UNCHANGED <<train, elev, follower, lobe, track, scene>>

HeliSetManual ==
  /\ heli' = [heli EXCEPT !.isManual = ~@, !.op = "set"]
  /\ UNCHANGED <<train, elev, follower, lobe, track, scene>>

NextHelicopter == HeliParkedFrame \/ HeliManualFrame \/ HeliSetManual

SpecHelicopter == InitHelicopter /\ [][NextHelicopter]_vars

\* C5: while isManual is false, after every update the helicopter is at
\* landingPos with zero velocity, zero angular velocity and zero group and
\* body rotations.
C5_ParkedDeterminism ==
  (heli.op = "update" /\ ~heli.isManual)
    => /\ heli.position = heli.landingPos
       /\ heli.velocity = ZeroVec
       /\ heli.angularVelocity = 0
       /\ heli.rotation = ZeroVec
       /\ heli.bodyRotation = ZeroVec

\* C5 witness: parked again by an update after a flight, rotor still turning.
C5_Witness ==
  /\ heli.op = "update" /\ ~heli.isManual
  /\ heli.flown > 0
  /\ heli.rotorSpeed > 0
  /\ heli.position = heli.landingPos

\* A flown state: away from the pad, moving, turned or banked.
HeliAway ==
  /\ heli.isManual
  /\ heli.position # heli.landingPos
  /\ heli.velocity # ZeroVec
  /\ heli.bodyRotation # ZeroVec

(***************************************************************************)
(* TrafficCar and HeroTaxi (part_000:531-691): closed-loop followers.      *)
(* progress and curve parameters in 1e-6, delta in milliseconds.           *)
(***************************************************************************)
NUM_CARS == 20
SPEED_BASE == 60
TAXI_SPEED == 70

\* How far a frame may take a follower's progress sum, in laps.
MaxLaps == 3

\* TrafficSystem builds car i at t = i / NUM_CARS with speed SPEED_BASE.
\* round is the sign of the rounding error the double progress carries
\* where a comparison of the code can see it; threw tells that the last
\* update left by an exception.
NewTrafficCar(i) ==
  [mode |-> "run", class |-> "TrafficCar", progress |-> (i * ONE) \div NUM_CARS,
   speed |-> SPEED_BASE, sampled |-> <<>>, round |-> 0, threw |-> FALSE]

\* HeroTaxi constructor: progress 0.85, speed 70.
NewHeroTaxi ==
  [mode |-> "run", class |-> "HeroTaxi", progress |-> 850000,
   speed |-> TAXI_SPEED, sampled |-> <<>>, round |-> 0, threw |-> FALSE]

\* progress += speed * delta * LOOP_SPEED_SCALE, LOOP_SPEED_SCALE = 0.0005:
\* speed * (delta/1000) * 0.0005 is speed * delta / 2 in 1e-6 units.
loopAdvance(f, delta) == f.progress + (f.speed * delta) \div 2

\* The sum is a double: where it is nominally a value one of the two
\* comparisons of update decides on (1 and 2 for progress > 1 and the
\* parameter's domain, 0.995 and 1.995 for the look-ahead's % 1), the
\* sign of its rounding error is any; a delta of 0 adds nothing and keeps it.
followerRoundings(f, delta) ==
  IF delta = 0 THEN {f.round}
  ELSE IF loopAdvance(f, delta) \in {ONE - 5000, ONE, 2 * ONE - 5000, 2 * ONE}
       THEN Roundings
       ELSE {0}

\* if (this.progress > 1) this.progress -= 1;  (the subtraction is exact)
wrapOnce(p, rnd) == IF p > ONE \/ (p = ONE /\ rnd > 0) THEN p - ONE ELSE p

\* (this.progress + 0.005) % 1, on a non-negative number: a sum just
\* below 1 stays there, a sum of 1 or more loses its integer part.
lookAhead(p, rnd) == IF p + 5000 = ONE /\ rnd < 0 THEN ONE ELSE (p + 5000) % ONE

\* this.curve.getPointAt(this.progress): the curve is a closed
\* CatmullRomCurve3; for a parameter above 1 getPointAt reads a control
\* point that is not there and throws a TypeError.
getPointAtThrows(p, rnd) == p > ONE \/ (p = ONE /\ rnd > 0)

\* TrafficCar.update and HeroTaxi.update (the same body); sampled holds the
\* parameters handed to curve.getPointAt.  An exception of the first call
\* comes after progress was stored and before the look-ahead is sampled.
followerUpdate(f, delta, rnd) ==
  LET p == wrapOnce(loopAdvance(f, delta), rnd)
      outside == getPointAtThrows(p, rnd)
  IN [f EXCEPT !.progress = p,
               !.round = rnd,
               !.sampled = IF outside THEN <<p>> ELSE <<p, lookAhead(p, rnd)>>,
               !.threw = outside]

(***************************************************************************)
(* SpecFollower: one follower under deltas >= 0, among them the 50 ms      *)
(* frame that brings a car to 0.995.                                       *)
(***************************************************************************)
InitFollower ==
  /\ \/ \E i \in 0 .. NUM_CARS - 1 : follower = NewTrafficCar(i)
     \/ follower = NewHeroTaxi
  /\ train = IdleTrain /\ elev = IdleElev /\ heli = IdleHeli /\ lobe = IdleLobe
  /\ track = IdleTrack /\ scene = IdleScene

FollowerFrame ==
  /\ \E d \in PositiveDeltas \cup {FineDelta, 0} :
       \E rnd \in followerRoundings(follower, d) :
         /\ loopAdvance(follower, d) <= MaxLaps * ONE
         /\ follower' = followerUpdate(follower, d, rnd)
  /\ UNCHANGED <<train, elev, heli, lobe, track, scene>>

NextFollower == FollowerFrame

SpecFollower == InitFollower /\ [][NextFollower]_vars

\* C6 (as claimed): after every update with delta >= 0, also one that
\* advances progress by more than a lap, the stored progress is in [0, 1)
\* and both parameters handed to getPointAt are in [0, 1].
C6_FollowerWrapsModuloOne ==
  /\ 0 <= follower.progress
  /\ follower.progress < ONE \/ (follower.progress = ONE /\ follower.round < 0)
  /\ Len(follower.sampled) \in {0, 2}
  /\ \A k \in DOMAIN follower.sampled :
       /\ 0 <= follower.sampled[k]
       /\ follower.sampled[k] < ONE \/ (follower.sampled[k] = ONE /\ follower.round <= 0)

(***************************************************************************)
(* createSteppedLobe (part_000:1438-1505).  Lengths in quarter units       *)
(* (voxelSize 1.25 is 5).  shapeFn and exclusionFn are evaluated only at   *)
(* the swept grid points, so each is given by the set of grid keys where   *)
(* it is true; exclusionFn may be missing.  The grid Map is the set of its *)
(* keys (a key determines its value).                                      *)
(***************************************************************************)
voxelSize == 5

\* for (x = -w; x <= w; x += voxelSize), for (y = 0; y < h; y += voxelSize)
sweepX(w) == {(0 - w) + voxelSize * k : k \in 0 .. ((2 * w) \div voxelSize)}
sweepY(h) == {voxelSize * j : j \in 0 .. ((h - 1) \div voxelSize)}

\* Math.round(x / voxelSize) = floor(x / voxelSize + 0.5)
roundIndex(x) == (2 * x + voxelSize) \div (2 * voxelSize)

\* const key = `${ix},${iy},${iz}`
keyOf(x, y, z) == <<roundIndex(x), roundIndex(y), roundIndex(z)>>

\* The keys of all swept grid points.
sweptKeys(dims) ==
  {keyOf(x, y, z) : x \in sweepX(dims.w), y \in sweepY(dims.h), z \in sweepX(dims.d)}

\* The first loop nest: the keys inserted into the grid Map.
fillGrid(in) ==
  {k \in sweptKeys(in.dims) :
     /\ k \in in.shape
     /\ ~(in.exclusion.present /\ k \in in.exclusion.cells)}

\* Variant: only the 4 horizontal neighbour keys.
neighbors_Horizontal(k) ==
  {<<k[1] + 1, k[2], k[3]>>, <<k[1] - 1, k[2], k[3]>>,
   <<k[1], k[2], k[3] + 1>>, <<k[1], k[2], k[3] - 1>>}

\* The 6 neighbour keys of a key (part_000:1476-1479).
neighbors(k) ==
  {<<k[1] + 1, k[2], k[3]>>, <<k[1] - 1, k[2], k[3]>>, <<k[1], k[2] + 1, k[3]>>,
   <<k[1], k[2] - 1, k[3]>>, <<k[1], k[2], k[3] + 1>>, <<k[1], k[2], k[3] - 1>>}

\* Variant: a cell is kept only when all its neighbours are absent.
extractShell_AllAbsent(grid) == {k \in grid : \A n \in neighbors(k) : n \notin grid}

\* grid.forEach: neighbors.some(nKey => !grid.has(nKey)) keeps the cell.
extractShell(grid) == {k \in grid : \E n \in neighbors(k) : n \notin grid}

\* createSteppedLobe: the grid, the kept voxels, the InstancedMesh built
\* with voxels.length instances and the children added to parent.
createSteppedLobe(in) ==
  LET grid == fillGrid(in)
      voxels == extractShell(grid)
  IN [pc |-> "done", input |-> in, grid |-> grid, voxels |-> voxels,
      meshes |-> <<Cardinality(voxels)>>,
      parentChildren |-> <<Cardinality(voxels)>>]

(***************************************************************************)
(* SpecLobe: one call of createSteppedLobe on bounded inputs.              *)
(***************************************************************************)
\* Dimensions with a, b, c grid cells along x, y, z.
halfWidthOf(n) == (5 * n) \div 2 - 1
heightOf(n) == 5 * n - 2

LobeDims ==
  {[w |-> halfWidthOf(a), h |-> heightOf(b), d |-> halfWidthOf(c)] :
     a \in 1 .. MaxSide, b \in 1 .. MaxSide, c \in 1 .. MaxSide}

\* A solid n x n x n block of keys with lowest corner c.
Block(c, n) ==
  {<<c[1] + i, c[2] + j, c[3] + k>> : i \in 0 .. n - 1, j \in 0 .. n - 1, k \in 0 .. n - 1}

\* The lowest key of the sweep.
lowKey(dims) == keyOf(0 - dims.w, 0, 0 - dims.d)

\* The cell next to the lowest corner's diagonal neighbour and its 6 neighbours.
probeCells(dims) ==
  LET c == <<lowKey(dims)[1] + 1, lowKey(dims)[2] + 1, lowKey(dims)[3] + 1>>
  IN ({c} \cup neighbors(c)) \cap sweptKeys(dims)

\* The corners of the solid n x n x n blocks that lie within the sweep.
blockCorners(dims, n) ==
  {c \in sweptKeys(dims) : Block(c, n) \subseteq sweptKeys(dims)}

\* Shapes: nothing, solid cubes anywhere in the sweep, and everything with
\* at most two of the probe cells carved out.
LobeShapes(dims) ==
  UNION {{[kind |-> "block", n |-> n, corner |-> c, cells |-> Block(c, n)] :
            c \in blockCorners(dims, n)} : n \in 1 .. MaxSide}
  \cup {[kind |-> "carved", n |-> 0, corner |-> lowKey(dims), cells |-> sweptKeys(dims) \ c] :
          c \in {{}} \cup {{p, q} : p, q \in probeCells(dims)}}
  \cup {[kind |-> "none", n |-> 0, corner |-> lowKey(dims), cells |-> {}]}

\* Exclusions: no exclusionFn, or one true on a probe cell, or everywhere.
LobeExclusions(dims) ==
  {[present |-> FALSE, cells |-> {}]}
  \cup {[present |-> TRUE, cells |-> {c}] : c \in probeCells(dims)}
  \cup {[present |-> TRUE, cells |-> sweptKeys(dims)]}

LobeCall(dm, sh, ex) ==
  [pc |-> "call",
   input |-> [dims |-> dm, kind |-> sh.kind, n |-> sh.n, corner |-> sh.corner,
              shape |-> sh.cells, exclusion |-> ex],
   grid |-> {}, voxels |-> {}, meshes |-> <<>>, parentChildren |-> <<>>]

InitLobe ==
  /\ \E dm \in LobeDims :
       \E sh \in LobeShapes(dm), ex \in LobeExclusions(dm) : lobe = LobeCall(dm, sh, ex)
  /\ train = IdleTrain /\ elev = IdleElev /\ heli = IdleHeli /\ follower = IdleFollower
  /\ track = IdleTrack /\ scene = IdleScene

BuildLobe ==
  /\ lobe.pc = "call"
  /\ lobe' = createSteppedLobe(lobe.input)
  /\ UNCHANGED <<train, elev, heli, follower, track, scene>>

NextLobe == BuildLobe

SpecLobe == InitLobe /\ [][NextLobe]_vars

\* C7: for a shape that is true exactly on a solid N x N x N block of grid
\* cells, with nothing excluded, the kept voxels are the block without its
\* (N-2)^3 interior: N^3 - (N-2)^3 = 6(N-2)^2 + 12(N-2) + 8 of them for
\* N >= 2, and all N^3 for N <= 2.
C7_SolidCubeShellCount ==
  (/\ lobe.pc = "done"
   /\ lobe.input.kind = "block"
   /\ (~lobe.input.exclusion.present \/ lobe.input.exclusion.cells \cap lobe.input.shape = {}))
    => LET N == lobe.input.n
           c == lobe.input.corner
           interior == IF N <= 2 THEN {}
                       ELSE Block(<<c[1] + 1, c[2] + 1, c[3] + 1>>, N - 2)
       IN /\ lobe.voxels = lobe.input.shape \ interior
          /\ N <= 2 => Cardinality(lobe.voxels) = N * N * N
          /\ N >= 2 => /\ Cardinality(lobe.voxels)
                            = N * N * N - (N - 2) * (N - 2) * (N - 2)
                       /\ Cardinality(lobe.voxels)
                            = 6 * (N - 2) * (N - 2) + 12 * (N - 2) + 8

\* C7 witness: a 3 x 3 x 3 block, nothing excluded: 26 voxels kept, the
\* centre cell dropped.
C7_Witness ==
  /\ lobe.pc = "done"
  /\ lobe.input.kind = "block" /\ lobe.input.n = 3
  /\ ~lobe.input.exclusion.present
  /\ Cardinality(lobe.voxels) = 26
  /\ Cardinality(lobe.grid) = 27

\* The six axis steps, written out for the claims.
AxisSteps ==
  {<<1, 0, 0>>, <<0 - 1, 0, 0>>, <<0, 1, 0>>, <<0, 0 - 1, 0>>, <<0, 0, 1>>, <<0, 0, 0 - 1>>}

\* The keys a call inserts: swept, inside the shape, not excluded.
C8_Inserted ==
  {k \in sweptKeys(lobe.input.dims) :
     /\ k \in lobe.input.shape
     /\ (lobe.input.exclusion.present => k \notin lobe.input.exclusion.cells)}

\* C8: for every shape and exclusion, a cell is emitted iff it was inserted
\* into the grid map and one of its 6 axis neighbours is absent from the
\* map; an excluded cell is absent, so a cell next to one is kept.
C8_ShellIffBoundary ==
  lobe.pc = "done"
    => LET inserted == C8_Inserted
           excluded == IF lobe.input.exclusion.present
                       THEN lobe.input.exclusion.cells ELSE {}
           around(k) == {<<k[1] + s[1], k[2] + s[2], k[3] + s[3]>> : s \in AxisSteps}
       IN /\ lobe.grid = inserted
          /\ \A k \in sweptKeys(lobe.input.dims) \cup lobe.input.shape :
               (k \in lobe.voxels)
                 <=> (k \in inserted /\ ~(around(k) \subseteq inserted))
          /\ \A k \in inserted :
               around(k) \cap excluded # {} => k \in lobe.voxels

\* C8 witness: a cell whose 6 neighbours are all inside the shape and swept
\* is kept because one of them was excluded.
C8_Witness ==
  /\ lobe.pc = "done"
  /\ lobe.input.exclusion.present
  /\ \E k \in lobe.voxels :
       /\ \A s \in AxisSteps :
            <<k[1] + s[1], k[2] + s[2], k[3] + s[3]>>
              \in (lobe.input.shape \cap sweptKeys(lobe.input.dims))
       /\ \E s \in AxisSteps :
            <<k[1] + s[1], k[2] + s[2], k[3] + s[3]>> \in lobe.input.exclusion.cells

\* C9 (as claimed): a call that ends with zero surviving voxels creates no
\* instanced mesh and adds nothing to parent.
C9_EmptyResultSkipsMesh ==
  (lobe.pc = "done" /\ lobe.voxels = {})
    => (lobe.meshes = <<>> /\ lobe.parentChildren = <<>>)

(***************************************************************************)
(* createTrack (part_000:14-98) and createTunnelGeometry (part_000:693-746)*)
(* place piers and lights along a curve.  Curve lengths are whole units;   *)
(* a stepping parameter is a JavaScript number in 1e-6 (0/0 is NaN).       *)
(* sampled lists the parameters handed to getPointAt / getTangentAt.       *)
(***************************************************************************)
PIER_SPACING == 20
lightSpacing == 40
MaxCurveLength == 90
MaxTunnelPoints == 3

\* Math.floor(length / spacing), length >= 0
spacingCount(length, spacing) == length \div spacing

\* const t = i / count  (i = 0 .. count); 0 / 0 is NaN
steppingParameter(i, count) ==
  IF count = 0 THEN NaNValue ELSE Num((i * ONE) \div count)

\* for (let i = 0; i <= count; i++) { t = i / count; getPointAt(t); getTangentAt(t) }
steppingLoop(count) == [k \in 1 .. count + 1 |-> steppingParameter(k - 1, count)]

\* createTrack(curve, scene): returns early without a curve.
createTrack(in) ==
  IF ~in.hasCurve
  THEN [pc |-> "done", builder |-> "createTrack", input |-> in, sampled |-> <<>>]
  ELSE [pc |-> "done", builder |-> "createTrack", input |-> in,
        sampled |-> steppingLoop(spacingCount(in.length, PIER_SPACING))]

\* createTunnelGeometry: returns early with fewer than 2 tunnel points.
createTunnelGeometry(in) ==
  IF in.points < 2
  THEN [pc |-> "done", builder |-> "createTunnelGeometry", input |-> in, sampled |-> <<>>]
  ELSE [pc |-> "done", builder |-> "createTunnelGeometry", input |-> in,
        sampled |-> steppingLoop(spacingCount(in.length, lightSpacing))]

\* The curves a builder is called with.
TrackInputs ==
  {[hasCurve |-> FALSE, points |-> 0, length |-> 0]}
  \cup {[hasCurve |-> TRUE, points |-> 2, length |-> len] : len \in 0 .. MaxCurveLength}

TunnelInputs ==
  {[hasCurve |-> TRUE, points |-> n, length |-> len] :
     n \in 0 .. MaxTunnelPoints, len \in 0 .. MaxCurveLength}

(***************************************************************************)
(* SpecTrack: one call of createTrack or of createTunnelGeometry.          *)
(***************************************************************************)
InitTrack ==
  /\ \/ \E in \in TrackInputs :
          track = [pc |-> "call", builder |-> "createTrack", input |-> in, sampled |-> <<>>]
     \/ \E in \in TunnelInputs :
          track = [pc |-> "call", builder |-> "createTunnelGeometry", input |-> in,
                   sampled |-> <<>>]
  /\ train = IdleTrain /\ elev = IdleElev /\ heli = IdleHeli /\ follower = IdleFollower
  /\ lobe = IdleLobe /\ scene = IdleScene

BuildTrack ==
  /\ track.pc = "call" /\ track.builder = "createTrack"
  /\ track' = createTrack(track.input)
  /\ UNCHANGED <<train, elev, heli, follower, lobe, scene>>

BuildTunnel ==
  /\ track.pc = "call" /\ track.builder = "createTunnelGeometry"
  /\ track' = createTunnelGeometry(track.input)
  /\ UNCHANGED <<train, elev, heli, follower, lobe, scene>>

NextTrack == BuildTrack \/ BuildTunnel

SpecTrack == InitTrack /\ [][NextTrack]_vars

\* C11 (as claimed): when the curve is shorter than the spacing, no NaN
\* stepping parameter reaches getPointAt / getTangentAt, in createTrack and
\* in createTunnelGeometry.
C11_NoNaNSteppingParameter ==
  track.pc = "done" => \A k \in DOMAIN track.sampled : ~isNaN(track.sampled[k])

\* C12 (as claimed): every parameter sampled on an open monorail curve lies
\* in [eps, 1 - eps] with eps > 0, so t = 0 and t = 1 are never sampled:
\* by the Train's car update and by the pier loop of createTrack.
C12_OpenCurveEndpointsNeverSampled ==
  /\ train.state # "idle" =>
       \A s \in CarSlots : train.cars[s].position.t > 0 /\ train.cars[s].position.t < ONE
  /\ (track.pc = "done" /\ track.builder = "createTrack") =>
       \A k \in DOMAIN track.sampled :
         ~isNaN(track.sampled[k]) => (track.sampled[k].v > 0 /\ track.sampled[k].v < ONE)

(***************************************************************************)
(* The scene of index.js: the registry animatedObjects (part_000:7), the   *)
(* agents pushed by createEnvironment, the two trains and the animation    *)
(* tick animate (index.js:175-229).  An object is <<kind, env>>: env is    *)
(* the number of the createEnvironment call that built it (0 for the       *)
(* trains, built by index.js itself).  world maps each object to its       *)
(* state; calls lists the update calls of the last tick in call order,     *)
(* part 0 for the object itself and i for its i-th elevator or car.        *)
(* Gear and needle angles are in 1e-3 rad, times and deltas in ms.         *)
(***************************************************************************)
MaxTicks == 3
GearCount == 6
NeedleElevators == 3

redTrainId == <<"redTrain", 0>>
blueTrainId == <<"blueTrain", 0>>

\* The kinds pushed by createEnvironment, in push order
\* (part_000:2600, 2655, 2897, 2902, 2905).
\* Variant: the helicopter is pushed before the needle.
pushOrder_HeliFirst == <<"westlake", "heli", "needle", "traffic", "heroTaxi">>

pushOrder == <<"westlake", "needle", "heli", "traffic", "heroTaxi">>

\* new SpaceNeedle: speedOffset of elevators 1..3 (part_000:2122-2126).
speedOffsetOf == <<0, 2000, 4000>>

\* WestlakeMall: this.gears after the two gear chambers were built.
NewWestlake == [gears |-> [i \in 1 .. GearCount |-> 0]]

\* WestlakeMall.update: gear i (0-based) turns by delta * 1.5 * dir.
westlakeUpdate(w, delta) ==
  [w EXCEPT !.gears = [i \in 1 .. GearCount |->
     w.gears[i] + (IF (i - 1) % 2 = 0 THEN 1 ELSE 0 - 1) * ((3 * delta) \div 2)]]

\* SpaceNeedle constructor; r[i] is elevator i's Math.random() * 5.
NewNeedle(r) ==
  [time |-> 0, rotation |-> 0,
   elevators |-> [i \in 1 .. NeedleElevators |-> NewElevatorState(speedOffsetOf[i], r[i])]]

\* SpaceNeedle.update: time, the rotating deck, then every elevator (the
\* ticks of the scene last whole seconds: waitTime keeps its rounding).
needleUpdate(n, delta, r) ==
  [time |-> n.time + delta,
   rotation |-> n.rotation + delta \div 20,
   elevators |-> [i \in DOMAIN n.elevators |->
                    elevatorUpdate(n.elevators[i], delta, r[i], n.elevators[i].waitRound)]]

\* TrafficSystem constructor; threw tells that the last update left by an
\* exception.
NewTraffic == [cars |-> [i \in 1 .. NUM_CARS |-> NewTrafficCar(i - 1)], threw |-> FALSE]

\* The rounding signs of one TrafficSystem.update, one per car.
carRoundings(t, delta) ==
  LET open == {i \in DOMAIN t.cars : followerRoundings(t.cars[i], delta) = Roundings}
  IN {[i \in DOMAIN t.cars |->
         IF i \in open THEN g[i]
         ELSE CHOOSE r \in followerRoundings(t.cars[i], delta) : TRUE] :
        g \in [open -> Roundings]}

\* this.cars.forEach(car => car.update(delta)): the number of cars whose
\* update is called; an exception of a car's update leaves forEach.
carsUpdated(t, delta, rnd) ==
  LET throwing == {i \in DOMAIN t.cars :
                     getPointAtThrows(wrapOnce(loopAdvance(t.cars[i], delta), rnd[i]), rnd[i])}
  IN IF throwing = {} THEN Len(t.cars)
     ELSE CHOOSE i \in throwing : \A j \in throwing : i <= j

\* TrafficSystem.update: the cars after a throwing one are not updated.
trafficUpdate(t, delta, rnd) ==
  LET n == carsUpdated(t, delta, rnd)
      cars == [i \in DOMAIN t.cars |->
                 IF i <= n THEN followerUpdate(t.cars[i], delta, rnd[i]) ELSE t.cars[i]]
  IN [cars |-> cars, threw |-> cars[n].threw]

\* The state of a new object of a kind.
NewAgent(kind, r) ==
  CASE kind = "westlake" -> NewWestlake
    [] kind = "needle" -> NewNeedle(r)
    [] kind = "heli" -> NewHelicopter
    [] kind = "traffic" -> NewTraffic
    [] kind = "heroTaxi" -> NewHeroTaxi

\* obj.update(delta) by the object's class; in.r is what Math.random()
\* returns to the elevators, in.gp what navigator.getGamepads() shows,
\* in.rnd the rounding signs of the trains' and the followers' sums.
agentUpdate(w, id, delta, in) ==
  CASE id[1] \in {"redTrain", "blueTrain"} ->
         [w EXCEPT ![id] = update(w[id], Num(delta), ValidCurve, in.rnd[id[1]])]
    [] id[1] = "westlake" -> [w EXCEPT ![id] = westlakeUpdate(w[id], delta)]
    [] id[1] = "needle" -> [w EXCEPT ![id] = needleUpdate(w[id], delta, in.r)]
    [] id[1] = "heli" -> [w EXCEPT ![id] = helicopterUpdate(w[id], in.gp, delta)]
    [] id[1] = "traffic" -> [w EXCEPT ![id] = trafficUpdate(w[id], delta, in.rnd.cars)]
    [] id[1] = "heroTaxi" -> [w EXCEPT ![id] = followerUpdate(w[id], delta, in.rnd.taxi)]

\* Whether obj.update(delta) is left by an exception (a train on its valid
\* curve, the mall, the needle and the helicopter never throw).
agentThrows(w, id, delta, in) ==
  CASE id[1] = "traffic" ->
         carsUpdated(w[id], delta, in.rnd.cars) < Len(w[id].cars)
         \/ getPointAtThrows(wrapOnce(loopAdvance(w[id].cars[Len(w[id].cars)], delta),
                                      in.rnd.cars[Len(w[id].cars)]),
                             in.rnd.cars[Len(w[id].cars)])
    [] id[1] = "heroTaxi" ->
         getPointAtThrows(wrapOnce(loopAdvance(w[id], delta), in.rnd.taxi), in.rnd.taxi)
    [] OTHER -> FALSE

\* The update calls one obj.update(delta) makes: its own, then the ones it
\* forwards (SpaceNeedle to this.elevators, TrafficSystem to this.cars, up
\* to a car whose update throws).
callsOf(w, id, delta, in) ==
  <<[target |-> id, part |-> 0, delta |-> delta]>>
  \o (CASE id[1] = "needle" ->
             [i \in 1 .. Len(w[id].elevators) |-> [target |-> id, part |-> i, delta |-> delta]]
        [] id[1] = "traffic" ->
             [i \in 1 .. carsUpdated(w[id], delta, in.rnd.cars) |->
                [target |-> id, part |-> i, delta |-> delta]]
        [] OTHER -> <<>>)

\* redTrain.update, blueTrain.update, then animatedObjects.forEach
\* (index.js:179-184): the objects updated in a tick, in call order.
updateOrder(registry) == <<redTrainId, blueTrainId>> \o registry

\* The update calls of a tick in call order; an exception of an update is
\* not caught, it leaves forEach and animate: the objects after the
\* throwing one are not updated.
RECURSIVE applyUpdates(_, _, _, _)
applyUpdates(w, order, delta, in) ==
  IF order = <<>> THEN w
  ELSE applyUpdates(agentUpdate(w, Head(order), delta, in),
                    IF agentThrows(w, Head(order), delta, in) THEN <<>> ELSE Tail(order),
                    delta, in)

RECURSIVE callLog(_, _, _, _)
callLog(w, order, delta, in) ==
  IF order = <<>> THEN <<>>
  ELSE callsOf(w, Head(order), delta, in)
       \o (IF agentThrows(w, Head(order), delta, in) THEN <<>>
           ELSE callLog(w, Tail(order), delta, in))

\* The first registry entry of one of the kinds, or <<>> (Array.find).
RECURSIVE findKind(_, _)
findKind(registry, kinds) ==
  IF registry = <<>> THEN <<>>
  ELSE IF Head(registry)[1] \in kinds THEN Head(registry)
       ELSE findKind(Tail(registry), kinds)

\* The object the camera is taken from in a tick (index.js:191-226);
\* "orbit" is the OrbitControls branch, a missing object keeps the camera.
cameraSource(sc) ==
  LET found(kinds) == IF findKind(sc.registry, kinds) = <<>> THEN sc.cameraFrom
                      ELSE findKind(sc.registry, kinds)
  IN CASE sc.cameraMode = "RED" -> redTrainId
       [] sc.cameraMode = "BLUE" -> blueTrainId
       [] sc.cameraMode = "ELEVATOR" -> found({"needle", "heli"})
       [] sc.cameraMode = "TAXI" -> found({"heroTaxi"})
       [] sc.cameraMode = "HELI" -> found({"heli"})
       [] OTHER -> <<"orbit", 0>>

\* What the camera is set from: SpaceNeedle.getPOV takes the camera target
\* of this.elevators[0] (part_000:2146-2148), the first of its elevators;
\* every other source reports itself (elevator 0: none).
getPOV(w, id) ==
  IF id[1] = "needle" THEN [object |-> id, elevator |-> 1]
  ELSE [object |-> id, elevator |-> 0]

CameraModes == {"ORBIT", "RED", "BLUE", "ELEVATOR", "TAXI", "HELI"}

\* What Math.random() gives the three elevators in one call chain.
RandomDraws == {<<a, a, a>> : a \in RandomWaits} \cup {<<0, 4999, 2500>>}

TickDeltas == {0, DeltaStep, LongDelta}

\* What a tick with this delta can read: Math.random(), the gamepads (none
\* is connected) and the rounding of the sums of the two trains and of the
\* followers of the page's one createEnvironment call.
tickInputs(w, delta) ==
  {[r |-> r, gp |-> NoGamepad,
    rnd |-> [redTrain |-> rr, blueTrain |-> rb, taxi |-> a, cars |-> c]] :
     r \in RandomDraws,
     rr \in roundings(w[redTrainId], delta),
     rb \in roundings(w[blueTrainId], delta),
     a \in followerRoundings(w[<<"heroTaxi", 1>>], delta),
     c \in carRoundings(w[<<"traffic", 1>>], delta)}

\* createEnvironment: the five objects are built and pushed in order.
createEnvironment(sc, r) ==
  LET e == sc.environments + 1
      built == [k \in 1 .. Len(pushOrder) |-> <<pushOrder[k], e>>]
      ids == {built[k] : k \in 1 .. Len(built)}
  IN [sc EXCEPT !.op = "createEnvironment",
                !.environments = e,
                !.registry = sc.registry \o built,
                !.world = [id \in DOMAIN sc.world \cup ids |->
                             IF id \in ids THEN NewAgent(id[1], r) ELSE sc.world[id]]]

\* clearAnimatedObjects: animatedObjects.length = 0
clearAnimatedObjects(sc) == [sc EXCEPT !.op = "clearAnimatedObjects", !.registry = <<>>]

\* animate(): one tick.  requestAnimationFrame(animate) comes first (176),
\* so a tick left by an exception of an update is followed by the next
\* tick, but its camera code (186-226) and its render (228) do not run.
animate(sc, delta, in) ==
  LET order == updateOrder(sc.registry)
      w == applyUpdates(sc.world, order, delta, in)
      after == [sc EXCEPT !.op = "animate", !.delta = delta, !.world = w,
                          !.calls = callLog(sc.world, order, delta, in),
                          !.ticks = sc.ticks + 1,
                          !.threw = \E k \in 1 .. Len(order) :
                                      agentThrows(sc.world, order[k], delta, in)]
      from == cameraSource(after)
  IN IF after.threw THEN after
     ELSE [after EXCEPT !.cameraFrom = from, !.pov = getPOV(w, from)]

\* Variant: a camera-mode change that also empties the registry.
setMode_Rebuild(sc, mode) ==
  [sc EXCEPT !.op = "setMode", !.cameraMode = mode, !.registry = <<>>]

\* Variant: choosing the HELI camera hands the helicopter to the pilot.
setMode_TakesOver(sc, mode) ==
  [sc EXCEPT !.op = "setMode", !.cameraMode = mode,
             !.world = [id \in DOMAIN sc.world |->
                          IF id[1] = "heli" /\ mode = "HELI"
                          THEN [sc.world[id] EXCEPT !.isManual = TRUE]
                          ELSE sc.world[id]]]

\* setMode(mode)
setMode(sc, mode) == [sc EXCEPT !.op = "setMode", !.cameraMode = mode]

\* index.js before createEnvironment runs: an empty registry
\* (part_000:7), cameraMode 'ORBIT' (index.js:172), no object yet.
EmptyScene ==
  [pc |-> "load", op |-> "none", environments |-> 0,
   registry |-> <<>>, cameraMode |-> "ORBIT", cameraFrom |-> <<"orbit", 0>>,
   pov |-> [object |-> <<"orbit", 0>>, elevator |-> 0],
   delta |-> 0, calls |-> <<>>, ticks |-> 0, threw |-> FALSE,
   world |-> [id \in {} |-> 0],
   pending |-> {}, start |-> [id \in {} |-> 0],
   inputs |-> [r |-> <<0, 0, 0>>, gp |-> NoGamepad,
               rnd |-> [redTrain |-> 0, blueTrain |-> 0, taxi |-> 0,
                        cars |-> [i \in 1 .. NUM_CARS |-> 0]]]]

\* index.js at load, up to the loop: createEnvironment (line 144), then
\* the two trains (147-153).
buildScene(sc, r) ==
  LET env == createEnvironment(sc, r)
  IN [env EXCEPT !.pc = "running", !.op = "load",
                 !.world = [id \in DOMAIN env.world \cup {redTrainId, blueTrainId} |->
                              IF id = redTrainId THEN NewTrain(RedConfig, ValidCurve)
                              ELSE IF id = blueTrainId THEN NewTrain(BlueConfig, ValidCurve)
                              ELSE env.world[id]]]

\* index.js at load, over the scene built: animate() (230) runs the first
\* tick at once, before any event handler can; the clock starts in that
\* call, so that the first delta is 0.
loadScene(built, in) == animate(built, 0, in)

(***************************************************************************)
(* SpecScene: the page loads and runs its first tick, then ticks and       *)
(* camera-mode changes come from the browser; clearAnimatedObjects is      *)
(* exported for a host that tears the scene down.                          *)
(***************************************************************************)
InitScene ==
  /\ scene = EmptyScene
  /\ train = IdleTrain /\ elev = IdleElev /\ heli = IdleHeli /\ follower = IdleFollower
  /\ lobe = IdleLobe /\ track = IdleTrack

LoadScene ==
  /\ scene.pc = "load"
  /\ \E r \in RandomDraws : \E built \in {buildScene(scene, r)} :
       \E in \in tickInputs(built.world, 0) : scene' = loadScene(built, in)
  /\ UNCHANGED <<train, elev, heli, follower, lobe, track>>

Animate ==
  /\ scene.pc = "running"
  /\ scene.ticks < MaxTicks
  /\ \E d \in TickDeltas : \E in \in tickInputs(scene.world, d) :
       scene' = animate(scene, d, in)
  /\ UNCHANGED <<train, elev, heli, follower, lobe, track>>

SetMode ==
  /\ scene.pc = "running"
  /\ \E m \in CameraModes : scene' = setMode(scene, m)
  /\ UNCHANGED <<train, elev, heli, follower, lobe, track>>

ClearAnimatedObjects ==
  /\ scene' = clearAnimatedObjects(scene)
  /\ UNCHANGED <<train, elev, heli, follower, lobe, track>>

NextScene == LoadScene \/ Animate \/ SetMode \/ ClearAnimatedObjects

SpecScene == InitScene /\ [][NextScene]_vars

\* The objects pushed by the first createEnvironment, in push order.
C13_Pushed == [k \in 1 .. 5 |-> <<pushOrder[k], 1>>]

\* The update calls of a tick over the five pushed objects, written out.
C13_ExpectedCalls(d) ==
  <<[target |-> redTrainId, part |-> 0, delta |-> d],
    [target |-> blueTrainId, part |-> 0, delta |-> d],
    [target |-> <<"westlake", 1>>, part |-> 0, delta |-> d],
    [target |-> <<"needle", 1>>, part |-> 0, delta |-> d]>>
  \o [i \in 1 .. 3 |-> [target |-> <<"needle", 1>>, part |-> i, delta |-> d]]
  \o <<[target |-> <<"heli", 1>>, part |-> 0, delta |-> d],
       [target |-> <<"traffic", 1>>, part |-> 0, delta |-> d]>>
  \o [i \in 1 .. 20 |-> [target |-> <<"traffic", 1>>, part |-> i, delta |-> d]]
  \o <<[target |-> <<"heroTaxi", 1>>, part |-> 0, delta |-> d]>>

\* C13 (as claimed): in every tick one delta is used for all calls;
\* redTrain, blueTrain and then every registry entry in insertion order
\* (westlake, needle, heli, traffic, heroTaxi) get exactly one
\* update(delta); the needle forwards it once to each of its 3 elevators and
\* the traffic system once to each of its 20 cars; nothing is updated twice
\* or skipped.
C13_TickDispatch ==
  scene.op = "animate"
    => /\ \A k \in DOMAIN scene.calls : scene.calls[k].delta = scene.delta
       /\ \A j, k \in DOMAIN scene.calls :
            j # k => <<scene.calls[j].target, scene.calls[j].part>>
                       # <<scene.calls[k].target, scene.calls[k].part>>
       /\ scene.registry \in {<<>>, C13_Pushed}
       /\ scene.registry = C13_Pushed => scene.calls = C13_ExpectedCalls(scene.delta)
       /\ scene.registry = <<>> =>
            scene.calls = SubSeq(C13_ExpectedCalls(scene.delta), 1, 2)

\* C15: the registry changes only by createEnvironment's five pushes, which
\* append westlake, needle, heli, traffic, heroTaxi in this order (the page
\* load, whose first tick adds nothing to them), and by
\* clearAnimatedObjects, which empties it; a tick (with its agent updates
\* and camera queries) and a camera-mode change leave it as it is.
C15_RegistryChangesOnlyBySetupAndClear ==
  [][/\ scene'.registry # scene.registry =>
          \/ /\ scene.pc = "load"
             /\ scene'.op = "animate"
             /\ scene'.environments = scene.environments + 1
             /\ scene'.registry =
                  scene.registry \o [k \in 1 .. 5 |-> <<pushOrder[k], scene'.environments>>]
          \/ /\ scene'.op = "clearAnimatedObjects"
             /\ scene'.registry = <<>>
     /\ (scene.pc = "running" /\ scene'.op \in {"animate", "setMode"})
          => scene'.registry = scene.registry]_vars

\* C15 witness: after a tick in ELEVATOR mode, which queried the registry
\* for the camera, the five entries are still there in push order.
C15_Witness ==
  /\ scene.op = "animate"
  /\ scene.ticks > 1
  /\ ~scene.threw
  /\ scene.cameraMode = "ELEVATOR"
  /\ scene.cameraFrom = <<"needle", 1>>
  /\ scene.registry = [k \in 1 .. 5 |-> <<pushOrder[k], 1>>]

(***************************************************************************)
(* SpecTickOrder: the update calls of a tick taken one at a time in any    *)
(* order.  A tick samples delta and what Math.random() and the gamepad     *)
(* will show, keeps the world it started from, and updates the objects of  *)
(* updateOrder one by one in any order; an update that throws ends the    *)
(* tick.                                                                   *)
(***************************************************************************)
MaxOrderTicks == 2

InitTickOrder ==
  /\ \E r \in RandomDraws : \E built \in {buildScene(EmptyScene, r)} :
       \E in \in tickInputs(built.world, 0) : scene = loadScene(built, in)
  /\ train = IdleTrain /\ elev = IdleElev /\ heli = IdleHeli /\ follower = IdleFollower
  /\ lobe = IdleLobe /\ track = IdleTrack

TickBegin ==
  /\ scene.pc = "running"
  /\ scene.ticks < MaxOrderTicks
  /\ \E d \in TickDeltas : \E in \in tickInputs(scene.world, d) :
       scene' = [scene EXCEPT !.pc = "updating", !.op = "tickBegin", !.delta = d,
                              !.inputs = in, !.start = scene.world, !.threw = FALSE,
                              !.pending = {updateOrder(scene.registry)[k] :
                                             k \in 1 .. Len(updateOrder(scene.registry))}]
  /\ UNCHANGED <<train, elev, heli, follower, lobe, track>>

UpdateAgent ==
  /\ scene.pc = "updating"
  /\ \E id \in scene.pending :
       LET thrown == agentThrows(scene.world, id, scene.delta, scene.inputs)
       IN scene' = [scene EXCEPT !.op = "update",
                                 !.world = agentUpdate(scene.world, id, scene.delta,
                                                       scene.inputs),
                                 !.threw = thrown,
                                 !.pending = IF thrown THEN {} ELSE scene.pending \ {id}]
  /\ UNCHANGED <<train, elev, heli, follower, lobe, track>>

TickEnd ==
  /\ scene.pc = "updating"
  /\ scene.pending = {}
  /\ scene' = [scene EXCEPT !.pc = "running", !.op = "tickEnd", !.ticks = scene.ticks + 1]
  /\ UNCHANGED <<train, elev, heli, follower, lobe, track>>

NextTickOrder == TickBegin \/ UpdateAgent \/ TickEnd

SpecTickOrder == InitTickOrder /\ [][NextTickOrder]_vars

\* C14 (as claimed): within a tick, whatever the order of the update calls,
\* every object the tick has reached is in the state its own update gives
\* from the tick's starting world, every other object is as it was at the
\* start of the tick, and when the update calls are over the world is the
\* one the code's order (redTrain, blueTrain, registry order) produces.
C14_UpdateOrderIndependent ==
  scene.pc = "updating"
    => /\ \A id \in DOMAIN scene.world :
            scene.world[id] \in {scene.start[id],
                                 agentUpdate(scene.start, id, scene.delta, scene.inputs)[id]}
       /\ scene.pending = {} =>
            scene.world = applyUpdates(scene.start, updateOrder(scene.registry),
                                       scene.delta, scene.inputs)

(***************************************************************************)
(* Claims about the Train's station stops.                                 *)
(***************************************************************************)

\* The step of an update that starts in MOVING: when the advanced progress
\* reaches or passes a bound, progress is set to that bound exactly,
\* direction points away from it (-1 at the upper bound, +1 at the lower),
\* state becomes STOPPED and stopTimer is STOP_DURATION (5.0); otherwise the
\* train stays MOVING with progress strictly between the bounds.
MovingUpdate ==
  train.state = "MOVING" =>
    \E d \in FiniteDeltas, rnd \in Roundings :
      LET p == train.progress + train.direction * train.speed * d
          upper == ONE - TRACK_BUFFER
          lower == TRAIN_SPAN + TRACK_BUFFER
          atUpper == p > upper \/ (p = upper /\ rnd >= 0)
          atLower == p < lower \/ (p = lower /\ rnd <= 0)
      IN \/ /\ atUpper
            /\ train'.progress = upper /\ train'.round = 0
            /\ train'.direction = 0 - 1
            /\ train'.state = "STOPPED" /\ train'.stopTimer = 5000
         \/ /\ ~atUpper /\ atLower
            /\ train'.progress = lower /\ train'.round = 0
            /\ train'.direction = 1
            /\ train'.state = "STOPPED" /\ train'.stopTimer = 5000
         \/ /\ ~atUpper /\ ~atLower
            /\ train'.progress = p /\ train'.round = rnd
            /\ train'.direction = train.direction
            /\ train'.state = "MOVING" /\ train'.stopTimer = train.stopTimer

\* A MOVING train whose double progress is at or beyond a bound.
MovingOnBound ==
  /\ train.state = "MOVING"
  /\ \/ train.progress >= ONE - TRACK_BUFFER /\ train.round >= 0
     \/ train.progress <= TRAIN_SPAN + TRACK_BUFFER /\ train.round <= 0

\* C16 (as claimed): the update in which a MOVING train reaches or passes a
\* bound stops it on that bound, turned around, with stopTimer = 5.0; and
\* after an update no MOVING train has progress at or beyond a bound.
C16_MovingToStopped ==
  [][MovingUpdate /\ ~MovingOnBound']_vars

\* C16 (amended): the update in which a MOVING train reaches or passes a
\* bound stops it on that bound, turned around, with stopTimer = 5.0; an
\* update that starts in MOVING never leaves a MOVING train at or beyond a
\* bound; the one update that does is the update that ends the dwell, which
\* leaves the train MOVING on the station it stopped at.
C16_MovingToStoppedAmended ==
  [][/\ MovingUpdate
     /\ MovingOnBound' =>
          /\ train.state = "STOPPED"
          /\ timerExpired(train'.stopTimer, train'.timerRound)
          /\ train'.progress = train.progress
          /\ train.progress \in {ONE - TRACK_BUFFER, TRAIN_SPAN + TRACK_BUFFER}]_vars

\* C16 witness: a train that started downwards stands at the lower bound,
\* turned around, its timer armed, its last car at the buffer.
C16_Witness ==
  /\ train.config.direction = 0 - 1
  /\ train.state = "STOPPED"
  /\ train.progress = TRAIN_SPAN + TRACK_BUFFER
  /\ train.direction = 1
  /\ train.stopTimer = STOP_DURATION
  /\ train.cars[1].position.t = TRAIN_SPAN + TRACK_BUFFER

InitShuttle ==
  /\ \E c \in TrainConfigs, rate \in FrameRates :
       /\ rate = "fine" => c \in {RedConfig, BlueConfig}
       /\ train = [NewTrain(c, ValidCurve) EXCEPT !.rate = rate]
  /\ elev = IdleElev /\ heli = IdleHeli /\ follower = IdleFollower /\ lobe = IdleLobe
  /\ track = IdleTrack /\ scene = IdleScene

ShuttleFrame ==
  /\ \E d \in DriverDeltas(train) : \E rnd \in roundings(train, d) :
       train' = driverUpdate(train, d, rnd, FALSE)
  /\ UNCHANGED <<elev, heli, follower, lobe, track, scene>>

\* A frame whose positive delta the doubles absorb (see
\* RedTrainAbsorbedFrame).
ShuttleAbsorbedFrame ==
  /\ \E rnd \in roundings(train, 0) : train' = driverUpdate(train, 0, rnd, TRUE)
  /\ UNCHANGED <<elev, heli, follower, lobe, track, scene>>

NextShuttle == ShuttleFrame \/ ShuttleAbsorbedFrame

SpecShuttle == InitShuttle /\ [][NextShuttle]_vars /\ WF_vars(NextShuttle)

StoppedAtUpper == train.state = "STOPPED" /\ train.progress = ONE - TRACK_BUFFER
StoppedAtLower == train.state = "STOPPED" /\ train.progress = TRAIN_SPAN + TRACK_BUFFER

\* A train that has just left a stop: MOVING, still on the bound.
JustLeftStop ==
  /\ train.state = "MOVING"
  /\ train.lastStop # "none"
  /\ train.progress \in {ONE - TRACK_BUFFER, TRAIN_SPAN + TRACK_BUFFER}
  /\ train.round = 0

\* A stop is entered at a bound other than the one of the last stop.
StopsAlternate ==
  (train.state = "MOVING" /\ train'.state = "STOPPED")
    => \/ train'.progress = ONE - TRACK_BUFFER /\ train.lastStop # "upper"
       \/ train'.progress = TRAIN_SPAN + TRACK_BUFFER /\ train.lastStop # "lower"

\* C18 (as claimed): under positive deltas the train stops at the upper and
\* at the lower bound infinitely often, the stops alternate, and the first
\* MOVING update after a stop moves it off the bound without triggering a
\* stop.
C18_ShuttleLiveness ==
  /\ []<>StoppedAtUpper
  /\ []<>StoppedAtLower
  /\ [][/\ StopsAlternate
        /\ JustLeftStop => (train'.progress # train.progress /\ train'.state = "MOVING")]_vars

\* C18 (amended): when from some frame on every delta is large enough to
\* change the doubles, the train stops at the upper and at the lower bound
\* infinitely often; a stop entered by such a frame is at the bound other
\* than the one of the last stop, and the first MOVING update after a stop,
\* when its delta is such, moves the train off the bound it left: it stays
\* MOVING, or (a delta long enough to cross the whole track) it stops at the
\* opposite bound.
C18_ShuttleLivenessAmended ==
  /\ (<>[](~train.absorbed)) => ([]<>StoppedAtUpper /\ []<>StoppedAtLower)
  /\ [][~train'.absorbed =>
          /\ StopsAlternate
          /\ JustLeftStop =>
               /\ train'.progress # train.progress
               /\ train'.state = "STOPPED" =>
                    train'.progress = (ONE - TRACK_BUFFER) + (TRAIN_SPAN + TRACK_BUFFER)
                                        - train.progress]_vars

\* C18 witness: the red train's configuration, stopped at the lower bound
\* (it started upwards, so it has stopped at the upper bound before).
C18_Witness ==
  /\ train.config = RedConfig
  /\ StoppedAtLower
  /\ train.lastStop = "lower"
  /\ train.direction = 1

\* The deltas of the frames of SpecElevator.
ElevatorDeltas == PositiveDeltas \cup {FineDelta}

\* C19: while mode is 'wait' an update only decreases waitTime by delta and
\* leaves y and velocity unchanged; in the update in which waitTime becomes
\* <= 0 (as a double: below 0, or on 0 and not rounded above it) the elevator
\* selects the far endpoint (mode 'up' with targetY = 415
\* at the bottom, mode 'down' with targetY = 10 at the top) and does not
\* move in that update.
C19_WaitOnlyCountsDown ==
  [][elev.state.mode = "wait" =>
       /\ \E d \in ElevatorDeltas : elev'.state.waitTime = elev.state.waitTime - d
       /\ elev'.state.y = elev.state.y
       /\ elev'.state.velocity = elev.state.velocity
       /\ IF \/ elev'.state.waitTime < 0
             \/ elev'.state.waitTime = 0 /\ elev'.state.waitRound <= 0
          THEN \/ /\ elev.state.y = STOP_Y_BOT
                  /\ elev'.state.mode = "up"
                  /\ elev'.state.targetY = STOP_Y_TOP
               \/ /\ elev.state.y = STOP_Y_TOP
                  /\ elev'.state.mode = "down"
                  /\ elev'.state.targetY = STOP_Y_BOT
          ELSE /\ elev'.state.mode = "wait"
               /\ elev'.state.targetY = elev.state.targetY
  ]_vars

\* C19 witness: the dwell at the top has just run out: the cabin is still at
\* y = 415, at rest, and heads for y = 10.
C19_Witness ==
  /\ elev.state.mode = "down"
  /\ elev.state.y = STOP_Y_TOP
  /\ elev.state.velocity = 0
  /\ elev.state.targetY = STOP_Y_BOT
  /\ elev.state.waitTime <= 0

(***************************************************************************)
(* SpecElevatorThrottled: one elevator whose animation loop runs at the    *)
(* rate FineDelta for up to MaxFineFrames frames and then, the page being  *)
(* throttled, at one of the rates of ThrottledDeltas.  elev.fineFrames     *)
(* counts the frames before the throttling.                                *)
(***************************************************************************)
\* The frames at FineDelta before the throttling.  At a constant delta d
\* the speed of a cabin swinging around targetY tends to
\* 0.95 * ACCEL * d / 1.95.  For d = 3 s that is 190 / 13, which no fixed
\* point represents: a cabin of the model would creep out of a swing the
\* doubles of the code stay in.  Throttled to 3 s within MaxFineFrames
\* frames, a cabin arrives without swinging.
MaxFineFrames == 45

\* A throttled frame of 2.925 s: the speed of the swing is 14.25, which the
\* fixed-point velocity represents exactly.
ThrottledDelta == 2925

\* The deltas a throttled page may deliver.
ThrottledDeltas == PositiveDeltas \cup {ThrottledDelta}

InitElevatorThrottled ==
  /\ \E o \in SpeedOffsets, r \in RandomWaits :
       elev = [mode |-> "run", rate |-> FineDelta, fineFrames |-> 0,
               state |-> NewElevatorState(o, r)]
  /\ train = IdleTrain /\ heli = IdleHeli /\ follower = IdleFollower /\ lobe = IdleLobe
  /\ track = IdleTrack /\ scene = IdleScene

\* A frame at the current rate.
SteadyFrame ==
  /\ elev.rate = FineDelta => elev.fineFrames < MaxFineFrames
  /\ \E r \in RandomWaits, rnd \in waitRoundings(elev.state, elev.rate) :
       elev' = [elev EXCEPT
                  !.state = elevatorUpdate(elev.state, elev.rate, r, rnd),
                  !.fineFrames = IF elev.rate = FineDelta THEN @ + 1 ELSE @]
  /\ UNCHANGED <<train, heli, follower, lobe, track, scene>>

\* The first frame at the throttled rate.
ThrottledFrame ==
  /\ elev.rate = FineDelta
  /\ \E d \in ThrottledDeltas, r \in RandomWaits :
       \E rnd \in waitRoundings(elev.state, d) :
         elev' = [elev EXCEPT !.rate = d, !.fineFrames = 0,
                              !.state = elevatorUpdate(elev.state, d, r, rnd)]
  /\ UNCHANGED <<train, heli, follower, lobe, track, scene>>

NextElevatorThrottled == SteadyFrame \/ ThrottledFrame

\* requestAnimationFrame keeps the loop running: frames keep coming.
SpecElevatorThrottled ==
  InitElevatorThrottled /\ [][NextElevatorThrottled]_vars /\ WF_vars(NextElevatorThrottled)

\* The cabin is moving and y is past targetY.
Overshot ==
  \/ elev.state.mode = "up" /\ elev.state.y > elev.state.targetY
  \/ elev.state.mode = "down" /\ elev.state.y < elev.state.targetY

\* C20: every exit from mode 'up' or 'down' leaves y = targetY, velocity 0,
\* mode 'wait' and a new waitTime in [3, 8); and when a step has carried y
\* past targetY, the very next update snaps y to targetY.
C20_ArrivalAndOvershootGuard ==
  [][elev.state.mode \in {"up", "down"} =>
       /\ elev'.state.mode # elev.state.mode =>
            /\ elev'.state.mode = "wait"
            /\ elev'.state.targetY = elev.state.targetY
            /\ elev'.state.y = elev'.state.targetY
            /\ elev'.state.velocity = 0
            /\ elev'.state.waitTime >= 3000
            /\ elev'.state.waitTime < 8000
       /\ Overshot =>
            /\ elev'.state.mode = "wait"
            /\ elev'.state.y = elev.state.targetY
  ]_vars

\* The manual updates with a connected gamepad that lead from heli to heli'.
PadUpdates ==
  {x \in {gp \in Gamepads : gp.connected} \X HeliDeltas :
     /\ heli.isManual /\ heli.flown < MaxFlightFrames
     /\ heli' = [helicopterUpdate(heli, x[1], x[2]) EXCEPT !.flown = @ + 1]}

\* C21: in MANUAL mode with a connected gamepad, after every update the
\* altitude position.y is at least 2, and an update that starts on the floor
\* (y <= 2) does not end with a negative vertical velocity.
C21_HelicopterFloor ==
  [][PadUpdates # {} =>
       /\ heli'.position.y >= 2000
       /\ heli.position.y <= 2000 => heli'.velocity.y >= 0]_vars

\* The manual updates without a connected gamepad that lead from heli to heli'.
NoPadUpdates ==
  {d \in HeliDeltas :
     /\ heli.isManual /\ heli.flown < MaxFlightFrames
     /\ heli' = [helicopterUpdate(heli, NoGamepad, d) EXCEPT !.flown = @ + 1]}

\* C22: a MANUAL update with no connected gamepad leaves the heading and the
\* angular velocity unchanged and only scales the velocity by the drag
\* factor (no yaw, thrust, gravity or lift); from rest the position does not
\* change and the helicopter stays at rest.
C22_NoGamepadNoControl ==
  [][NoPadUpdates # {} =>
       /\ heli'.rotation = heli.rotation
       /\ heli'.angularVelocity = heli.angularVelocity
       /\ heli'.velocity = Vec(friction(heli.velocity.x), friction(heli.velocity.y),
                               friction(heli.velocity.z))
       /\ \E d \in NoPadUpdates :
            heli'.position = addScaled(heli.position, heli.velocity, d)
       /\ heli.velocity = ZeroVec =>
            (heli'.position = heli.position /\ heli'.velocity = ZeroVec)]_vars

\* C22 witness: MANUAL, updated, the rotor already at full speed, and still
\* at rest on the pad: every update since take-over ran without a gamepad
\* (with one connected, gravity or lift would have moved it).
C22_Witness ==
  /\ heli.isManual /\ heli.op = "update"
  /\ heli.flown >= 2
  /\ heli.rotorSpeed = 20000
  /\ heli.position = heli.landingPos
  /\ heli.velocity = ZeroVec

\* C23: in every update rotorSpeed moves toward targetRotorSpeed by 10*delta
\* from below and 5*delta from above and is unchanged when equal; rotorSpeed
\* stays within [0, 20] and never passes its target, so the engine volume
\* stays within [0, 1].
C23_RotorRamp ==
  /\ heli.rotorSpeed >= 0 /\ heli.rotorSpeed <= 20000
  /\ engineVolume(heli) >= 0 /\ engineVolume(heli) <= 1000
  /\ [][heli'.op = "update" =>
          /\ heli.rotorSpeed < heli.targetRotorSpeed =>
               (heli'.rotorSpeed > heli.rotorSpeed
                  /\ heli'.rotorSpeed <= heli.targetRotorSpeed)
          /\ heli.rotorSpeed > heli.targetRotorSpeed =>
               (heli'.rotorSpeed < heli.rotorSpeed
                  /\ heli'.rotorSpeed >= heli.targetRotorSpeed)
          /\ heli.rotorSpeed = heli.targetRotorSpeed =>
               heli'.rotorSpeed = heli.rotorSpeed]_vars

(***************************************************************************)
(* The Train variant with a pause flag (part_002:123-252).  progress in    *)
(* 1e-6, speed in 1/100, pauseTimer, stopDuration and delta in             *)
(* milliseconds.  types holds the type of each of the four cars; rebuilt   *)
(* is the set of slots whose mesh the last operation built; round and      *)
(* pauseRound are the signs of the rounding errors of the doubles progress *)
(* and pauseTimer.                                                         *)
(***************************************************************************)
CarTypeOf(direction) ==
  IF direction = 1 THEN <<"HEAD", "BODY", "BODY", "TAIL">>
  ELSE <<"TAIL", "BODY", "BODY", "HEAD">>

\* updateVisuals: a mesh is rebuilt where the type changes.
updateVisuals(t) ==
  LET types == CarTypeOf(t.direction)
  IN [t EXCEPT !.types = types,
               !.rebuilt = {k \in 1 .. 4 : t.types[k] # types[k]}]

\* Math.random() * 3 in milliseconds: a value of [0, 3000).
RandomStops == {0, 1500, 2999}

\* constructor: the four placeholders have type null, then updateVisuals().
\* rate is the frame rate of the behaviour, as for the Train of train.js.
NewPausedTrain(config) ==
  updateVisuals(
    [state |-> "variant", op |-> "new",
     progress |-> IF config.initialProgress = 0 THEN 50000 ELSE config.initialProgress,
     speed |-> config.speed,
     direction |-> config.direction,
     round |-> 0,
     paused |-> FALSE,
     pauseTimer |-> 0,
     pauseRound |-> 0,
     stopDuration |-> 0,
     rate |-> "coarse",
     types |-> <<"null", "null", "null", "null">>,
     rebuilt |-> {}])

\* this.pauseTimer >= this.stopDuration (part_002:195) on the double whose
\* fixed-point value is timer and whose rounding error has the sign rnd.
pauseOver(t, timer, rnd) ==
  timer > t.stopDuration \/ (timer = t.stopDuration /\ rnd >= 0)

\* this.progress > 0.99 and this.progress < 0.04 (part_002:207, 213) on the
\* double whose fixed-point value is p and whose rounding error has the
\* sign rnd: the tests are strict.
pastUpper(p, rnd) == p > 990000 \/ (p = 990000 /\ rnd > 0)
pastLower(p, rnd) == p < 40000 \/ (p = 40000 /\ rnd < 0)

\* progress + speed * delta * direction * 0.05
pausedAdvance(t, delta) == t.progress + (t.speed * delta * t.direction) \div 2

\* Variant: the direction flips on arrival, as in src/train.js, and the
\* dwell ends without a flip.
pausedUpdate_FlipOnArrival(t, delta, r, rnd) ==
  IF t.paused
  THEN IF pauseOver(t, t.pauseTimer + delta, rnd)
       THEN [t EXCEPT !.paused = FALSE, !.pauseTimer = 0, !.pauseRound = 0,
                      !.rebuilt = {}, !.op = "update"]
       ELSE [t EXCEPT !.pauseTimer = @ + delta, !.pauseRound = rnd,
                      !.rebuilt = {}, !.op = "update"]
  ELSE LET p == pausedAdvance(t, delta)
       IN IF pastUpper(p, rnd) \/ pastLower(p, rnd)
          THEN [t EXCEPT !.progress = IF pastUpper(p, rnd) THEN 990000 ELSE 40000,
                         !.round = 0,
                         !.paused = TRUE, !.stopDuration = 7000 + r,
                         !.direction = 0 - @, !.rebuilt = {}, !.op = "update"]
          ELSE [t EXCEPT !.progress = p, !.round = rnd, !.rebuilt = {}, !.op = "update"]

\* The signs the rounding error of the double an update writes can have.
\* Paused: pauseTimer += delta (part_002:194) is exact for a delta of whole
\* seconds added to an exact pauseTimer; otherwise a sum that lands on
\* stopDuration may be that double or lie on either side of it (140 times
\* 0.05 is 6.999999999999983, below 7), and away from it pauseRound = 1
\* only records that the double is off its fixed-point value.  Moving: a
\* sum that lands on a station (part_002:204) may be the station's double
\* or one of its neighbours.  Adding 0 keeps the double as it is.
pausedRoundings(t, delta) ==
  IF delta = 0 THEN {IF t.paused THEN t.pauseRound ELSE t.round}
  ELSE IF t.paused
       THEN IF delta % 1000 = 0 /\ t.pauseRound = 0 THEN {0}
            ELSE IF t.pauseTimer + delta = t.stopDuration THEN Roundings
                 ELSE {1}
       ELSE IF pausedAdvance(t, delta) \in {990000, 40000} THEN Roundings
            ELSE {0}

\* update(delta) of the variant (part_002:192-218); r is Math.random() * 3,
\* rnd the sign of the rounding error of the double the update writes (the
\* increased pauseTimer, or the advanced progress).
\* progress += speed * delta * direction * 0.05.
pausedUpdate(t, delta, r, rnd) ==
  LET u == [t EXCEPT !.rebuilt = {}, !.op = "update"]
  IN IF t.paused
     THEN IF pauseOver(t, t.pauseTimer + delta, rnd)
          THEN updateVisuals([u EXCEPT !.paused = FALSE, !.pauseTimer = 0,
                                       !.pauseRound = 0, !.direction = 0 - @])
          ELSE [u EXCEPT !.pauseTimer = @ + delta, !.pauseRound = rnd]
     ELSE LET p == pausedAdvance(t, delta)
          IN IF pastUpper(p, rnd)
             THEN [u EXCEPT !.progress = 990000, !.round = 0, !.paused = TRUE,
                            !.stopDuration = 7000 + r]
             ELSE IF pastLower(p, rnd)
             THEN [u EXCEPT !.progress = 40000, !.round = 0, !.paused = TRUE,
                            !.stopDuration = 7000 + r]
             ELSE [u EXCEPT !.progress = p, !.round = rnd]

PausedConfigs ==
  {RedConfig, BlueConfig, [initialProgress |-> 0, speed |-> 35, direction |-> -1]}

InitPausedTrain ==
  /\ \E c \in PausedConfigs, rate \in FrameRates :
       train = [NewPausedTrain(c) EXCEPT !.rate = rate]
  /\ elev = IdleElev /\ heli = IdleHeli /\ follower = IdleFollower /\ lobe = IdleLobe
  /\ track = IdleTrack /\ scene = IdleScene

\* The deltas of the frames: the driver's, and 0 (two frames within one
\* tick of the clock).
PausedDeltas == PositiveDeltas \cup {FineDelta, 0}

PausedTrainFrame ==
  /\ \E d \in DriverDeltas(train) \cup {0}, r \in RandomStops :
       \E rnd \in pausedRoundings(train, d) : train' = pausedUpdate(train, d, r, rnd)
  /\ UNCHANGED <<elev, heli, follower, lobe, track, scene>>

NextPausedTrain == PausedTrainFrame

SpecPausedTrain == InitPausedTrain /\ [][NextPausedTrain]_vars

\* C24: after construction and after every update, slot 0 is HEAD and slot
\* 3 TAIL exactly when direction = 1 (TAIL and HEAD when direction = -1),
\* slots 1 and 2 are BODY; meshes are rebuilt only in the update that ends
\* the dwell (pauseTimer has reached stopDuration), which is also the only
\* update in which direction changes.
C24_HeadLeadsAfterDwell ==
  /\ train.direction \in {1, -1}
  /\ train.types[2] = "BODY" /\ train.types[3] = "BODY"
  /\ (train.types[1] = "HEAD" /\ train.types[4] = "TAIL") <=> train.direction = 1
  /\ (train.types[1] = "TAIL" /\ train.types[4] = "HEAD") <=> train.direction = -1
  /\ [][(train'.rebuilt # {} \/ train'.direction # train.direction) =>
          /\ train.paused /\ ~train'.paused
          /\ \E d \in PausedDeltas : train.pauseTimer + d >= train.stopDuration
          /\ train'.pauseTimer = 0
          /\ train'.direction = 0 - train.direction
          /\ train'.rebuilt = {1, 4}]_vars

\* C24 witness: the dwell at the upper station has just ended: the train
\* heads down, the end cars were rebuilt and slot 3 is now the HEAD.
C24_Witness ==
  /\ train.op = "update"
  /\ train.progress = 990000
  /\ ~train.paused
  /\ train.direction = -1
  /\ train.rebuilt = {1, 4}
  /\ train.types = <<"TAIL", "BODY", "BODY", "HEAD">>

\* C25: under the frame deltas of the driver, direction is 1 or -1, and
\* STOPPED implies (progress = 1 - TRACK_BUFFER and direction = -1) or
\* (progress = TRAIN_SPAN + TRACK_BUFFER and direction = 1), with
\* 0 < stopTimer <= STOP_DURATION; so getCameraTarget selects the departing
\* lead car (3 at the upper station, 0 at the lower) during the whole dwell.
C25_TrainStateConsistency ==
  /\ train.direction \in {1, -1}
  /\ train.state = "STOPPED" =>
       /\ \/ train.progress = ONE - TRACK_BUFFER /\ train.direction = -1
          \/ train.progress = TRAIN_SPAN + TRACK_BUFFER /\ train.direction = 1
       /\ ~timerExpired(train.stopTimer, train.timerRound)
       /\ train.stopTimer <= STOP_DURATION
       /\ train.stopTimer = STOP_DURATION => train.timerRound <= 0
       /\ leadCarIndex(train) = IF train.progress = ONE - TRACK_BUFFER THEN 3 ELSE 0

\* C25 witness: the blue train's configuration part-way through a dwell at
\* the upper station, which it reached after a stop at the lower one.
C25_Witness ==
  /\ train.config = BlueConfig
  /\ StoppedAtUpper
  /\ train.stopTimer < STOP_DURATION
  /\ leadCarIndex(train) = 3

\* C26: in every reachable state, mode 'wait' implies velocity 0 and y
\* exactly 10 or 415; mode 'up' implies targetY = 415 and mode 'down'
\* implies targetY = 10; so the test y < 100 that ends a wait picks the
\* endpoint opposite to the one the cabin stands at.
C26_ElevatorStateConsistency ==
  /\ elev.state.mode = "wait" =>
       /\ elev.state.velocity = 0
       /\ elev.state.y \in {STOP_Y_BOT, STOP_Y_TOP}
       /\ \A d \in ElevatorDeltas, rnd \in Roundings :
            LET next == waitStep(elev.state, d, rnd)
            IN next.mode # "wait" => (next.targetY # elev.state.y
                                       /\ next.targetY \in {STOP_Y_BOT, STOP_Y_TOP})
  /\ elev.state.mode = "up" => elev.state.targetY = STOP_Y_TOP
  /\ elev.state.mode = "down" => elev.state.targetY = STOP_Y_BOT

\* C26 witness: part-way through a dwell at the top, after the ascent.
C26_Witness ==
  /\ elev.state.mode = "wait"
  /\ elev.state.y = STOP_Y_TOP
  /\ elev.state.targetY = STOP_Y_TOP
  /\ elev.state.waitTime > 0 /\ elev.state.waitTime < 3000

(***************************************************************************)
(* SpecElevatorShort: one elevator under frames of at most FineDelta       *)
(* (0.05 s).  A behaviour repeats one of ShortPatterns, a cycle of frame   *)
(* deltas; elev.phase is the place in the cycle of the next frame.         *)
(***************************************************************************)
\* Frames of 0.04 s and of 0.016 s (a 60 Hz display).
ShortDelta == 40
TinyDelta == 16

ShortPatterns ==
  {<<FineDelta>>, <<ShortDelta>>, <<TinyDelta>>, <<FineDelta, ShortDelta>>,
   <<TinyDelta, FineDelta>>, <<ShortDelta, ShortDelta, FineDelta>>}

InitElevatorShort ==
  /\ \E o \in SpeedOffsets, r \in RandomWaits, pattern \in ShortPatterns :
       elev = [mode |-> "run", pattern |-> pattern, phase |-> 1,
               state |-> NewElevatorState(o, r)]
  /\ train = IdleTrain /\ heli = IdleHeli /\ follower = IdleFollower /\ lobe = IdleLobe
  /\ track = IdleTrack /\ scene = IdleScene

ElevatorShortFrame ==
  /\ LET d == elev.pattern[elev.phase]
     IN \E r \in RandomWaits, rnd \in waitRoundings(elev.state, d) :
          elev' = [elev EXCEPT !.state = elevatorUpdate(elev.state, d, r, rnd),
                               !.phase = (@ % Len(elev.pattern)) + 1]
  /\ UNCHANGED <<train, heli, follower, lobe, track, scene>>

NextElevatorShort == ElevatorShortFrame

SpecElevatorShort == InitElevatorShort /\ [][NextElevatorShort]_vars

\* C27: when every frame delta is at most FineDelta (0.05 s) the cabin's y
\* stays within [10, 415], |velocity| stays below MAX_SPEED + ACCEL * 0.05
\* (15.5), and the cabin never passes its target endpoint.
C27_ElevatorTravelBounds ==
  /\ elev.state.y >= STOP_Y_BOT /\ elev.state.y <= STOP_Y_TOP
  /\ Abs(elev.state.velocity) < MAX_SPEED + MulDiv(ACCEL, FineDelta, 1000)
  /\ elev.state.mode = "up" => elev.state.y <= elev.state.targetY
  /\ elev.state.mode = "down" => elev.state.y >= elev.state.targetY

\* C27 witness: descending above MAX_SPEED (the last acceleration started
\* below it) under a cycle that mixes two deltas.
C27_Witness ==
  /\ Len(elev.pattern) > 1
  /\ elev.state.mode = "down"
  /\ elev.state.velocity < 0 - MAX_SPEED
  /\ elev.state.y < STOP_Y_TOP - 10000000

(***************************************************************************)
(* SpecTraffic: the TrafficSystem under the deltas of the driver, for a    *)
(* bounded number of frames.                                               *)
(***************************************************************************)
MaxTrafficFrames == 6

InitTraffic ==
  /\ follower = [mode |-> "system", system |-> NewTraffic, frames |-> 0]
  /\ train = IdleTrain /\ elev = IdleElev /\ heli = IdleHeli /\ lobe = IdleLobe
  /\ track = IdleTrack /\ scene = IdleScene

TrafficFrame ==
  /\ \E d \in PositiveDeltas \cup {FineDelta, 0} :
       \E rnd \in carRoundings(follower.system, d) :
         /\ follower.frames < MaxTrafficFrames
         /\ follower' = [follower EXCEPT !.system = trafficUpdate(@, d, rnd),
                                         !.frames = @ + 1]
  /\ UNCHANGED <<train, elev, heli, lobe, track, scene>>

NextTraffic == TrafficFrame

SpecTraffic == InitTraffic /\ [][NextTraffic]_vars

\* C28 (as claimed): after any sequence of ticks the progress of cars i
\* and j differs, modulo 1, by (i - j)/20 as at construction, and no two
\* cars have the same progress (the curve parameter handed to getPointAt).
C28_TrafficSpacing ==
  LET cars == follower.system.cars
  IN \A i, j \in DOMAIN cars :
       /\ (cars[i].progress - cars[j].progress) % ONE
            = ((i - j) * (ONE \div NUM_CARS)) % ONE
       /\ i # j => cars[i].progress # cars[j].progress
       /\ (i # j /\ cars[i].sampled # <<>> /\ cars[j].sampled # <<>>)
            => cars[i].sampled[1] # cars[j].sampled[1]

\* C29: in a tick in camera mode ELEVATOR the first registry entry that has
\* getPOV (SpaceNeedle and NewsHelicopter have one) is never the helicopter:
\* while the registry holds the objects it is the SpaceNeedle, pushed
\* before the helicopter, and a tick that gets to its camera code takes
\* the camera from it, as its first elevator shows it (an emptied registry
\* has no such entry and the camera is left alone).
C29_ElevatorCameraSource ==
  (scene.op = "animate" /\ scene.cameraMode = "ELEVATOR")
    => LET entry == findKind(scene.registry, {"needle", "heli"})
       IN /\ entry # <<>> => entry[1] = "needle"
          /\ scene.registry # <<>> => entry = <<"needle", 1>>
          /\ (scene.registry # <<>> /\ ~scene.threw) =>
               /\ scene.cameraFrom = entry
               /\ scene.pov = [object |-> <<"needle", 1>>, elevator |-> 1]

\* C29 witness: a tick in ELEVATOR mode over the five registered objects.
C29_Witness ==
  /\ scene.op = "animate"
  /\ ~scene.threw
  /\ scene.cameraMode = "ELEVATOR"
  /\ Len(scene.registry) = 5
  /\ scene.cameraFrom = <<"needle", 1>>
  /\ scene.pov.elevator = 1

\* C30: isManual starts false and no tick, camera-mode change (HELI
\* included), agent update or camera query sets it: in every state reached
\* through the driver loop and the UI handlers every helicopter is PARKED,
\* at its landing pad, at rest, with rotorSpeed 0.
C30_HelicopterStaysParked ==
  \A id \in DOMAIN scene.world :
    id[1] = "heli" =>
      /\ ~scene.world[id].isManual
      /\ scene.world[id].position = scene.world[id].landingPos
      /\ scene.world[id].velocity = ZeroVec
      /\ scene.world[id].rotorSpeed = 0
      /\ scene.world[id].targetRotorSpeed = 0

\* C30 witness: the third tick, a long one, with the HELI camera chosen.
C30_Witness ==
  /\ scene.op = "animate"
  /\ scene.cameraMode = "HELI"
  /\ scene.cameraFrom = <<"heli", 1>>
  /\ scene.ticks = 3
  /\ scene.delta = LongDelta
  /\ scene.world[<<"heli", 1>>].op = "update"

=============================================================================
